---- MODULE Spec2Model ----
(***************************************************************************)
(* Model of the calorie-counter application.                               *)
(*                                                                         *)
(*  Part I  : the debounced food search input                              *)
(*            (FoodSearchComponent.tsx, AddFoodScreen.tsx).                *)
(*  Part II : the persistence gateway (StorageService.ts) on top of an     *)
(*            asynchronous key-value store.                                *)
(*  Part III: the nutrition search client (EdamamService.ts and its        *)
(*            recipe-search alternative).                                  *)
(*  Part IV : the barcode scanner screen and its product lookup.           *)
(*  Part V  : the calorie calculator (FoodCalculator).                     *)
(*  Part VI : the home screen.                                             *)
(*  Part VII: the entry form of the food search component.                 *)
(*  Part VIII: the parsing and ordering of the food database response.     *)
(*  Part IX : the settings screen.                                         *)
(*  Part X  : the add food screen, in its two versions.                    *)
(***************************************************************************)
EXTENDS Integers, Sequences, FiniteSets, TLC

VARIABLES
    \* ---- Part I: food search input ----
    searchQuery,       \* useState('')     : text shown in the search box
    searchResults,     \* useState([])     : result list shown under the box
    isSearching,       \* useState(false)  : spinner flag
    searchTimeoutRef,  \* useRef(null)     : id of the last timer created, 0 = null
    timers,            \* timers of the JS runtime that are still pending
    inflight,          \* EdamamService.searchFoods calls awaiting their response
    mounted,           \* the component is on screen
    nextTimerId,       \* next id setTimeout hands out
    nextSeq,           \* issue number of the next search call
    sinceInput,        \* ms elapsed since the last handleSearchTextChange call
    lastTyped,         \* text of the last handleSearchTextChange call
    resultsFrom,       \* issue number of the search whose response is shown, 0 = none
    \* ---- Part II: persistence gateway ----
    store,             \* AsyncStorage: key -> <<>> (no item) or <<text>>
    calls,             \* StorageService calls in flight, one per slot
    nOps,              \* number of StorageService calls made so far
    last,              \* the StorageService call that completed last
    doneAdds,          \* the addFoodLogEntry calls that completed: entry id, written or not
    \* ---- Part III: nutrition search client ----
    env,               \* process.env: which EXPO_PUBLIC_EDAMAM_* values are set
    service,           \* which EdamamService module the build bundles
    nutri,             \* the searchFoods call of the search input, and its requests
    \* ---- Part IV: barcode scanner screen ----
    scanned,           \* useState(false)  : a barcode was taken
    isProcessing,      \* useState(false)  : a lookup is running
    lookups,           \* fetchProductData calls awaiting their response
    screen,            \* what the last lookup made the screen show
    \* ---- Part V: calorie calculator ----
    calcIn,            \* the FoodCalculator function called and its arguments
    calcOut,           \* what the call returned
    \* ---- Part VI: home screen ----
    todayEntries,      \* useState([])               : entries of today
    settings,          \* useState({dailyGoal: 2000}) : the settings
    loading,           \* useState(true)
    homeLoad,          \* the loadData call in flight
    summary,           \* the summary card as last rendered
    \* ---- Part VII: entry form of the food search component ----
    form,              \* useState: foodName, weight, calories, caloriesPer100g
    selection,         \* outcome of the last handleAddFood: result passed on, or alert
    \* ---- Part VIII: food database response ----
    parsed,            \* data.parsed of the response, and the locale of the device
    returned,          \* what searchFoodDatabase returned
    \* ---- Part IX: settings screen ----
    settingsScreen,    \* useState: dailyGoal, loading, saving; the dialog on screen
    \* ---- Part X: add food screen ----
    addScreen          \* useState: isAdding; the state of the form; the dialog on screen

searchVars == <<searchQuery, searchResults, isSearching, searchTimeoutRef, timers,
                inflight, mounted, nextTimerId, nextSeq, sinceInput, lastTyped,
                resultsFrom>>

storageVars == <<store, calls, nOps, last, doneAdds>>

nutritionVars == <<env, service, nutri>>

\* Everything outside Part I and Part II.
scannerVars == <<scanned, isProcessing, lookups, screen>>

calcVars == <<calcIn, calcOut>>

homeVars == <<todayEntries, settings, loading, homeLoad, summary>>

formVars == <<form, selection>>

parseVars == <<parsed, returned>>

settingsVars == <<settingsScreen>>

addVars == <<addScreen>>

laterVars == <<parseVars, settingsVars, addVars>>

\* Everything outside Part II, Part IX and Part X.
coreVars == <<searchVars, nutritionVars, scannerVars, calcVars, homeVars, formVars, parseVars>>

\* Everything outside Part I, Part II and the form fields.
exceptForm == <<storageVars, nutritionVars, scannerVars, calcVars, homeVars, laterVars>>

otherVars == <<nutritionVars, scannerVars, calcVars, homeVars, formVars, laterVars>>

vars == <<searchVars, storageVars, otherVars>>

(***************************************************************************)
(* Bounds.                                                                 *)
(***************************************************************************)
MaxInputs == 3     \* number of debounce timers scheduled
MaxCalls == 2      \* StorageService calls in flight at a time
MaxOps == 3        \* StorageService calls made in a run
MaxCaloriesPer100g == 200   \* largest caloriesPer100g handed to calculateCalories
MaxWeightInGrams == 150     \* largest weightInGrams handed to calculateCalories
MaxMeasures == 5   \* measures of a search result
MaxParsed == 3     \* foods in a food database response

(***************************************************************************)
(* Part I.  Food search input.                                             *)
(***************************************************************************)
DebounceMs == 800

\* The texts typed into the search box, as sequences of characters: empty,
\* blank, one character bare and padded, and queries of two and three
\* characters, bare and padded.
Texts ==
    { <<>>, <<" ">>, <<"a">>, <<" ", "a", " ">>,
      <<"a", "b">>, <<" ", "a", "b">>, <<"a", "b", "c">> }

\* String.prototype.trim: strips the white space at both ends.
RECURSIVE TrimStart(_)
TrimStart(s) == IF s # <<>> /\ Head(s) = " " THEN TrimStart(Tail(s)) ELSE s

RECURSIVE TrimEnd(_)
TrimEnd(s) ==
    IF s # <<>> /\ s[Len(s)] = " " THEN TrimEnd(SubSeq(s, 1, Len(s) - 1)) ELSE s

Trim(s) == TrimEnd(TrimStart(s))

\* The list a successful EdamamService.searchFoods(query) resolves to: the
\* foods matching the query (tagged by the query), or no food at all.
Responses(query) == {<<query>>, <<>>}

\* clearTimeout(id): the timer with that id, when still pending, is dropped.
ClearTimeout(pending, id) == {t \in pending : t.id # id}

InitSearch ==
    /\ searchQuery = <<>>
    /\ searchResults = <<>>
    /\ isSearching = FALSE
    /\ searchTimeoutRef = 0
    /\ timers = {}
    /\ inflight = {}
    /\ mounted = TRUE
    /\ nextTimerId = 1
    /\ nextSeq = 1
    /\ sinceInput = DebounceMs
    /\ lastTyped = <<>>
    /\ resultsFrom = 0

\* A handler that forgets to clear the previous timer.
CancelPendingForgotten(pending, ref) == pending

\* Lines 80-82: if (searchTimeoutRef.current) clearTimeout(searchTimeoutRef.current)
CancelPending(pending, ref) == IF ref # 0 THEN ClearTimeout(pending, ref) ELSE pending

\* A handler that keeps the empty-text return and drops the two-character one.
TooShortEmptyOnly(text) == Trim(text) = <<>>

\* Lines 84-94: the two early returns of handleSearchTextChange.
TooShort(text) == Trim(text) = <<>> \/ Len(Trim(text)) < 2

\* handleSearchTextChange(text): the onChangeText handler of the search box.
HandleSearchTextChange(text) ==
    /\ mounted
    /\ searchQuery' = text
    /\ sinceInput' = 0
    /\ lastTyped' = text
    /\ IF TooShort(text)
       THEN /\ timers' = CancelPending(timers, searchTimeoutRef)
            /\ searchResults' = <<>>
            /\ resultsFrom' = 0
            /\ isSearching' = FALSE
            /\ UNCHANGED <<searchTimeoutRef, nextTimerId>>
       ELSE /\ nextTimerId <= MaxInputs
            /\ isSearching' = TRUE
            /\ timers' = CancelPending(timers, searchTimeoutRef)
                           \cup {[id |-> nextTimerId, text |-> text, remaining |-> DebounceMs]}
            /\ searchTimeoutRef' = nextTimerId
            /\ nextTimerId' = nextTimerId + 1
            /\ UNCHANGED <<searchResults, resultsFrom>>
    /\ UNCHANGED <<inflight, mounted, nextSeq>>
    /\ UNCHANGED <<storageVars, otherVars>>

\* Time passes: half a debounce period at a step.
Elapse(ms) == IF ms > DebounceMs \div 2 THEN ms - DebounceMs \div 2 ELSE 0

Tick ==
    /\ \/ sinceInput < DebounceMs
       \/ \E t \in timers : t.remaining > 0
    /\ timers' = {[t EXCEPT !.remaining = Elapse(t.remaining)] : t \in timers}
    /\ sinceInput' = DebounceMs - Elapse(DebounceMs - sinceInput)
    /\ UNCHANGED <<searchQuery, searchResults, isSearching, searchTimeoutRef, inflight,
                   mounted, nextTimerId, nextSeq, lastTyped, resultsFrom>>
    /\ UNCHANGED <<storageVars, otherVars>>

\* The timer callback () => searchFoods(text) runs: searchFoods up to its await.
\* After unmount the state setters have no effect, the request is sent all the same.
TimerFire(t) ==
    /\ t \in timers
    /\ t.remaining = 0
    /\ timers' = timers \ {t}
    /\ IF Trim(t.text) = <<>>
       THEN /\ searchResults' = (IF mounted THEN <<>> ELSE searchResults)
            /\ resultsFrom' = (IF mounted THEN 0 ELSE resultsFrom)
            /\ UNCHANGED <<isSearching, inflight, nextSeq>>
       ELSE /\ isSearching' = (IF mounted THEN TRUE ELSE isSearching)
            /\ inflight' = inflight \cup {[seq |-> nextSeq, query |-> t.text]}
            /\ nextSeq' = nextSeq + 1
            /\ UNCHANGED <<searchResults, resultsFrom>>
    /\ UNCHANGED <<searchQuery, searchTimeoutRef, mounted, nextTimerId, sinceInput, lastTyped>>
    /\ UNCHANGED <<storageVars, otherVars>>

\* searchFoods after its await, the call resolved: setSearchResults(results), finally.
SearchResolve(r, results) ==
    /\ r \in inflight
    /\ results \in Responses(r.query)
    /\ inflight' = inflight \ {r}
    /\ IF mounted
       THEN /\ searchResults' = results
            /\ resultsFrom' = r.seq
            /\ isSearching' = FALSE
       ELSE UNCHANGED <<searchResults, resultsFrom, isSearching>>
    /\ UNCHANGED <<searchQuery, searchTimeoutRef, timers, mounted, nextTimerId, nextSeq,
                   sinceInput, lastTyped>>
    /\ UNCHANGED <<storageVars, otherVars>>

\* searchFoods after its await, the call rejected: catch, finally.
SearchReject(r) ==
    /\ r \in inflight
    /\ inflight' = inflight \ {r}
    /\ IF mounted
       THEN /\ searchResults' = <<>>
            /\ resultsFrom' = 0
            /\ isSearching' = FALSE
       ELSE UNCHANGED <<searchResults, resultsFrom, isSearching>>
    /\ UNCHANGED <<searchQuery, searchTimeoutRef, timers, mounted, nextTimerId, nextSeq,
                   sinceInput, lastTyped>>
    /\ UNCHANGED <<storageVars, otherVars>>

TypeText == \E text \in Texts : HandleSearchTextChange(text)
FireTimer == \E t \in timers : TimerFire(t)
ResolveSearch == \E r \in inflight : \E results \in Responses(r.query) : SearchResolve(r, results)
RejectSearch == \E r \in inflight : SearchReject(r)

(***************************************************************************)
(* Part II.  Persistence gateway (StorageService) over AsyncStorage.       *)
(***************************************************************************)
KEYS == [FOOD_LOG |-> "food_log", RECIPES |-> "recipes", SETTINGS |-> "settings"]

StoreKeys == {KEYS.FOOD_LOG, KEYS.RECIPES, KEYS.SETTINGS}

DefaultDailyGoal == 2000

\* ---- the values the calls are made with ----
Dates == {"2024-05-01", "2024-05-02"}

\* The entry AddFoodScreen builds: id from generateId(), which is new at every call.
NewEntries(n) ==
    {[id |-> n, name |-> "apple", calories |-> 95, date |-> d] : d \in Dates}

RecipeIds == {1, 2, 3}

Ingredient(n, c) == [name |-> n, calories |-> c]

RecipeBodies ==
    { [name |-> "soup", ingredients |-> <<Ingredient("leek", 61), Ingredient("cream", 340)>>],
      [name |-> "stew", ingredients |-> <<Ingredient("cream", 340), Ingredient("leek", 61)>>] }

Recipes == {[id |-> i, name |-> b.name, ingredients |-> b.ingredients] :
               i \in RecipeIds, b \in RecipeBodies}

SoupRecipe(i) ==
    [id |-> i, name |-> "soup",
     ingredients |-> <<Ingredient("leek", 61), Ingredient("cream", 340)>>]

\* The lists saveRecipes is handed: ids need not be in ascending order.
RecipeLists ==
    { <<>>, <<SoupRecipe(2), SoupRecipe(1)>>, <<SoupRecipe(3), SoupRecipe(2), SoupRecipe(1)>> }

EntryLists == {<<>>, <<[id |-> 0, name |-> "bread", calories |-> 250, date |-> "2024-05-01"]>>}

SettingsValues == {[dailyGoal |-> 1500], [dailyGoal |-> 2500]}

\* ---- JSON.stringify / JSON.parse ----
\* A JSON text is modelled by its structure: an object is the sequence of its
\* <<key, value>> members in the order stringify emits them, an array the
\* sequence of its elements.
Member(object, key) == (CHOOSE k \in DOMAIN object : object[k][1] = key)

Field(object, key) == object[Member(object, key)][2]

StringifyEntry(e) ==
    << <<"id", e.id>>, <<"name", e.name>>, <<"calories", e.calories>>, <<"date", e.date>> >>

ParseEntry(o) ==
    [id |-> Field(o, "id"), name |-> Field(o, "name"),
     calories |-> Field(o, "calories"), date |-> Field(o, "date")]

StringifyFoodLog(foodLog) == [k \in DOMAIN foodLog |-> StringifyEntry(foodLog[k])]

ParseFoodLog(text) == [k \in DOMAIN text |-> ParseEntry(text[k])]

StringifyIngredient(i) == << <<"name", i.name>>, <<"calories", i.calories>> >>

ParseIngredient(o) == [name |-> Field(o, "name"), calories |-> Field(o, "calories")]

\* A serialisation that emits the ingredients last to first.
StringifyRecipeReversed(r) ==
    << <<"id", r.id>>, <<"name", r.name>>,
       <<"ingredients", [k \in DOMAIN r.ingredients |->
                           StringifyIngredient(r.ingredients[Len(r.ingredients) + 1 - k])]>> >>

StringifyRecipe(r) ==
    << <<"id", r.id>>, <<"name", r.name>>,
       <<"ingredients", [k \in DOMAIN r.ingredients |-> StringifyIngredient(r.ingredients[k])]>> >>

ParseRecipe(o) ==
    LET items == Field(o, "ingredients")
    IN  [id |-> Field(o, "id"), name |-> Field(o, "name"),
         ingredients |-> [k \in DOMAIN items |-> ParseIngredient(items[k])]]

StringifyRecipes(recipes) == [k \in DOMAIN recipes |-> StringifyRecipe(recipes[k])]

ParseRecipes(text) == [k \in DOMAIN text |-> ParseRecipe(text[k])]

StringifySettings(appSettings) == << <<"dailyGoal", appSettings.dailyGoal>> >>

ParseSettings(text) == [dailyGoal |-> Field(text, "dailyGoal")]

\* ---- outcomes of a call ----
Resolved(v) == [outcome |-> "resolved", value |-> <<v>>]
Rejected == [outcome |-> "rejected", value |-> <<>>]

\* ---- the read operations, given whether AsyncStorage.getItem succeeded ----
\* A getFoodLog whose catch rethrows.
GetFoodLogRethrows(item, readOk) ==
    IF readOk
    THEN Resolved(IF Len(item) > 0 THEN ParseFoodLog(item[1]) ELSE <<>>)
    ELSE Rejected

GetFoodLog(item, readOk) ==
    IF readOk
    THEN Resolved(IF Len(item) > 0 THEN ParseFoodLog(item[1]) ELSE <<>>)
    ELSE Resolved(<<>>)

GetRecipes(item, readOk) ==
    IF readOk
    THEN Resolved(IF Len(item) > 0 THEN ParseRecipes(item[1]) ELSE <<>>)
    ELSE Resolved(<<>>)

GetSettings(item, readOk) ==
    IF readOk
    THEN Resolved(IF Len(item) > 0 THEN ParseSettings(item[1])
                  ELSE [dailyGoal |-> DefaultDailyGoal])
    ELSE Resolved([dailyGoal |-> DefaultDailyGoal])

GetFoodLogForDate(item, readOk, date) ==
    LET all == GetFoodLog(item, readOk)
        OnDate(entry) == entry.date = date
    IN  IF all.outcome = "resolved" THEN Resolved(SelectSeq(all.value[1], OnDate))
        ELSE Resolved(<<>>)

\* ---- the lists the read-then-write operations compute ----
\* currentLog.push(entry)
PushEntry(currentLog, entry) == Append(currentLog, entry)

\* Array.prototype.findIndex: the first index whose recipe has the id, 0 if none
\* (JavaScript: -1 if none, with indices from 0).
FindIndex(recipes, id) ==
    IF \E k \in DOMAIN recipes : recipes[k].id = id
    THEN CHOOSE k \in DOMAIN recipes :
             /\ recipes[k].id = id
             /\ \A j \in 1..(k - 1) : recipes[j].id # id
    ELSE 0

\* An addRecipe that pushes without looking for the id.
UpsertAppends(currentRecipes, recipe) == Append(currentRecipes, recipe)

\* Lines 73-79 of addRecipe.
Upsert(currentRecipes, recipe) ==
    LET existingIndex == FindIndex(currentRecipes, recipe.id)
    IN  IF existingIndex >= 1
        THEN [currentRecipes EXCEPT ![existingIndex] = recipe]
        ELSE Append(currentRecipes, recipe)

\* Line 91 of deleteRecipe.
RemoveById(currentRecipes, recipeId) ==
    LET Keep(r) == r.id # recipeId
    IN  SelectSeq(currentRecipes, Keep)

\* ---- calls in flight ----
Slots == 1..MaxCalls

\* What a call remembers of the call that completed before it was made: the
\* operation, if it was a write of the recipes that resolved, and whether it
\* had the same argument.
NoCall == [op |-> "none", sameArg |-> FALSE]

Before(op, arg) ==
    IF last.outcome = "resolved" /\ last.op \in {"addRecipe", "saveRecipes"}
    THEN [op |-> last.op, sameArg |-> (last.op = op /\ last.arg[1] = arg)]
    ELSE NoCall

Idle == [op |-> "idle", arg |-> <<>>, pc |-> "idle", local |-> <<>>, readOk |-> TRUE,
         after |-> NoCall, raced |-> {}]

Busy(s) == calls[s].op # "idle"

ReadOps == {"getFoodLog", "getFoodLogForDate", "getRecipes", "getSettings"}
SaveOps == {"saveFoodLog", "saveRecipes", "saveSettings"}
UpdateOps == {"addFoodLogEntry", "addRecipe", "deleteRecipe"}

\* A gateway whose deleteRecipe works under the key of the food log.
KeyOfDeleteMisdirected(op) ==
    IF op \in {"getFoodLog", "getFoodLogForDate", "saveFoodLog", "addFoodLogEntry",
               "deleteRecipe"}
    THEN KEYS.FOOD_LOG
    ELSE IF op \in {"getRecipes", "saveRecipes", "addRecipe"}
         THEN KEYS.RECIPES
         ELSE KEYS.SETTINGS

\* The key each operation passes to AsyncStorage.
KeyOf(op) ==
    IF op \in {"getFoodLog", "getFoodLogForDate", "saveFoodLog", "addFoodLogEntry"}
    THEN KEYS.FOOD_LOG
    ELSE IF op \in {"getRecipes", "saveRecipes", "addRecipe", "deleteRecipe"}
         THEN KEYS.RECIPES
         ELSE KEYS.SETTINGS

\* The argument of JSON.stringify, by key.
Stringify(key, value) ==
    IF key = KEYS.FOOD_LOG THEN StringifyFoodLog(value)
    ELSE IF key = KEYS.RECIPES THEN StringifyRecipes(value)
         ELSE StringifySettings(value)

\* The stored collections as the get operations would read them now.
StoredFoodLog == GetFoodLog(store[KEYS.FOOD_LOG], TRUE).value[1]
StoredRecipes == GetRecipes(store[KEYS.RECIPES], TRUE).value[1]
StoredSettings == GetSettings(store[KEYS.SETTINGS], TRUE).value[1]

InitStorage ==
    /\ store = [k \in StoreKeys |-> <<>>]
    /\ calls = [s \in Slots |-> Idle]
    /\ nOps = 0
    /\ last = [op |-> "none", arg |-> <<>>, outcome |-> "none", value |-> <<>>,
               readOk |-> TRUE, writeOk |-> TRUE, after |-> NoCall]
    /\ doneAdds = {}

\* No call is in flight.
Quiet == \A s \in Slots : ~Busy(s)

\* A call is made: the operation runs up to its first await. It takes the
\* first free slot; which slot holds a call has no meaning in the program.
StartCall(op, arg) ==
    /\ \E s \in Slots : ~Busy(s)
    /\ nOps < MaxOps
    /\ nOps' = nOps + 1
    /\ LET s == CHOOSE t \in Slots : ~Busy(t) /\ \A u \in 1..(t - 1) : Busy(u)
       IN  calls' = [calls EXCEPT ![s] =
                       [op |-> op, arg |-> <<arg>>,
                        pc |-> IF op \in SaveOps THEN "write" ELSE "read",
                        local |-> <<>>, readOk |-> TRUE,
                        after |-> Before(op, arg),
                        raced |-> {}]]
    /\ UNCHANGED <<store, last, doneAdds>>

\* A call made by a caller whose own state the model does not follow.
Start(op, arg) ==
    /\ StartCall(op, arg)
    /\ UNCHANGED <<searchVars, otherVars>>

CallGetFoodLog == Start("getFoodLog", "none")
CallGetFoodLogForDate == \E d \in Dates : Start("getFoodLogForDate", d)
CallSaveFoodLog == \E l \in EntryLists : Start("saveFoodLog", l)
CallAddFoodLogEntry == \E e \in NewEntries(nOps + 1) : Start("addFoodLogEntry", e)
CallGetRecipes == Start("getRecipes", "none")
CallSaveRecipes == \E l \in RecipeLists : Start("saveRecipes", l)
CallAddRecipe == \E r \in Recipes : Start("addRecipe", r)
CallDeleteRecipe == \E i \in RecipeIds : Start("deleteRecipe", i)
CallGetSettings == Start("getSettings", "none")
CallSaveSettings == \E v \in SettingsValues : Start("saveSettings", v)

\* The call in slot s settles with the given result.
Complete(s, result, readOk, writeOk) ==
    /\ calls' = [calls EXCEPT ![s] = Idle]
    /\ last' = [op |-> calls[s].op, arg |-> calls[s].arg, outcome |-> result.outcome,
                value |-> result.value, readOk |-> readOk, writeOk |-> writeOk,
                after |-> calls[s].after]
    /\ doneAdds' = IF calls[s].op = "addFoodLogEntry"
                   THEN doneAdds \cup {[id |-> calls[s].arg[1].id,
                                        ok |-> result.outcome = "resolved",
                                        raced |-> calls[s].raced]}
                   ELSE doneAdds

\* The read of a read-then-write operation returned: the list to write is computed.
\* raced: the appends that had read and not yet written when this one read.
Proceed(s, readOk, newList) ==
    LET rivals == IF calls[s].op = "addFoodLogEntry"
                  THEN {t \in Slots \ {s} : calls[t].op = "addFoodLogEntry" /\ calls[t].pc = "write"}
                  ELSE {}
    IN  /\ calls' = [t \in Slots |->
                       IF t = s
                       THEN [calls[s] EXCEPT !.pc = "write", !.local = <<newList>>,
                                             !.readOk = readOk,
                                             !.raced = {calls[u].arg[1].id : u \in rivals}]
                       ELSE IF t \in rivals
                            THEN [calls[t] EXCEPT !.raced = @ \cup {calls[s].arg[1].id}]
                            ELSE calls[t]]
        /\ UNCHANGED <<last, doneAdds>>

\* AsyncStorage.getItem of the call in slot s settles (readOk: it resolved).
ReadDone(s, readOk) ==
    LET c == calls[s]
        item == store[KeyOf(c.op)]
    IN  /\ c.pc = "read"
        /\ CASE c.op = "getFoodLog" -> Complete(s, GetFoodLog(item, readOk), readOk, TRUE)
             [] c.op = "getFoodLogForDate" ->
                   Complete(s, GetFoodLogForDate(item, readOk, c.arg[1]), readOk, TRUE)
             [] c.op = "getRecipes" -> Complete(s, GetRecipes(item, readOk), readOk, TRUE)
             [] c.op = "getSettings" -> Complete(s, GetSettings(item, readOk), readOk, TRUE)
             [] c.op = "addFoodLogEntry" ->
                   LET currentLog == GetFoodLog(item, readOk)
                   IN  IF currentLog.outcome = "rejected"
                       THEN Complete(s, Rejected, readOk, TRUE)
                       ELSE Proceed(s, readOk, PushEntry(currentLog.value[1], c.arg[1]))
             [] c.op = "addRecipe" ->
                   Proceed(s, readOk, Upsert(GetRecipes(item, readOk).value[1], c.arg[1]))
             [] c.op = "deleteRecipe" ->
                   Proceed(s, readOk, RemoveById(GetRecipes(item, readOk).value[1], c.arg[1]))
        /\ UNCHANGED <<store, nOps>>
        /\ UNCHANGED <<searchVars, otherVars>>

\* A write that first reads the item again and redoes the append on it.
ValueToWriteReread(c, item) ==
    IF c.op = "addFoodLogEntry"
    THEN PushEntry(GetFoodLog(item, TRUE).value[1], c.arg[1])
    ELSE IF c.op \in SaveOps THEN c.arg[1] ELSE c.local[1]

\* The value handed to save*: the argument of a save* call, the list computed
\* after the read for addFoodLogEntry, addRecipe and deleteRecipe.
ValueToWrite(c, item) == IF c.op \in SaveOps THEN c.arg[1] ELSE c.local[1]

\* A save* whose catch logs the error and does not rethrow.
SaveOutcomeSwallowed(writeOk) == [outcome |-> "resolved", value |-> <<>>]

\* try { await AsyncStorage.setItem(...) } catch (error) { ...; throw error }
SaveOutcome(writeOk) ==
    IF writeOk THEN [outcome |-> "resolved", value |-> <<>>] ELSE Rejected

\* AsyncStorage.setItem of the call in slot s settles (writeOk: it resolved).
WriteDone(s, writeOk) ==
    LET c == calls[s]
        key == KeyOf(c.op)
    IN  /\ c.pc = "write"
        /\ store' = IF writeOk
                    THEN [store EXCEPT ![key] = <<Stringify(key, ValueToWrite(c, store[key]))>>]
                    ELSE store
        /\ Complete(s, SaveOutcome(writeOk), c.readOk, writeOk)
        /\ UNCHANGED nOps
        /\ UNCHANGED <<searchVars, otherVars>>

ReadStep == \E s \in Slots, readOk \in BOOLEAN : ReadDone(s, readOk)
WriteStep == \E s \in Slots, writeOk \in BOOLEAN : WriteDone(s, writeOk)

(***************************************************************************)
(* Part III.  Nutrition search client (EdamamService).                     *)
(***************************************************************************)
\* process.env as read when the module is loaded: TRUE for a variable that
\* is set to a non-empty text.
Envs == [appId : BOOLEAN, appKey : BOOLEAN, userId : BOOLEAN]

ConfiguredEnv == [appId |-> TRUE, appKey |-> TRUE, userId |-> TRUE]

\* The two EdamamService modules of the repository: the Food Database client
\* the screens import, and the Recipe Search client.
Services == {"FoodDatabase", "RecipeSearch"}

CredentialsError == "API credentials not configured"
UserIdError == "User ID not configured"
FetchErrors == {"API Error", "Network request failed"}

ParserEndpoint == "api/food-database/v2/parser"
SearchEndpoint == "search"
RecipesV2Endpoint == "api/recipes/v2"

\* What a search method does before its first await: it throws, or it calls fetch.
Throw(message) == [kind |-> "throw", error |-> message, endpoint |-> "none"]
Fetch(endpoint) == [kind |-> "fetch", error |-> "none", endpoint |-> endpoint]

\* A client that sends the request with whatever credentials it has.
SearchFoodDatabaseUnchecked(e) == Fetch(ParserEndpoint)

\* EdamamService.ts lines 124-146.
SearchFoodDatabase(e) ==
    IF ~e.appId \/ ~e.appKey THEN Throw(CredentialsError) ELSE Fetch(ParserEndpoint)

\* Recipe Search client, lines 17-35.
SearchFoodsRecipeAPI(e) ==
    IF ~e.appId \/ ~e.appKey THEN Throw(CredentialsError)
    ELSE IF ~e.userId THEN Throw(UserIdError)
    ELSE Fetch(SearchEndpoint)

\* Recipe Search client, lines 66-73.
SearchFoodsRecipeAPIv2(e) ==
    IF ~e.appId \/ ~e.appKey THEN Throw(CredentialsError) ELSE Fetch(RecipesV2Endpoint)

\* The message of the Error searchFoods throws: `<prefix>: ${error}`.
Wrapped(svc, cause) ==
    << (IF svc = "FoodDatabase" THEN "Food Database API failed"
                                ELSE "Recipe Search API failed"), cause >>

NutriIdle ==
    [pc |-> "idle", query |-> <<>>, entered |-> FALSE, primary |-> "none",
     secondary |-> "none", requests |-> <<>>, outcome |-> "none", error |-> <<>>,
     results |-> <<>>]

InitNutrition(envs, services) ==
    /\ env \in envs
    /\ service \in services
    /\ nutri = NutriIdle

\* The search is over: the component shows results or the error.
Settled(n, outcome, error, results) ==
    [n EXCEPT !.pc = "done", !.outcome = outcome, !.error = error, !.results = results]

\* One endpoint variant runs up to its first await.
Attempt(n, variant, step) ==
    IF step.kind = "fetch"
    THEN [n EXCEPT ![variant] = "pending", !.pc = "await",
                   !.requests = Append(@, step.endpoint)]
    ELSE [n EXCEPT ![variant] = "failed"]

\* A fallback that asks the first endpoint again.
FallbackRetriesPrimary(n, e) ==
    LET step == SearchFoodsRecipeAPI(e)
        m == Attempt(n, "secondary", step)
    IN  IF step.kind = "throw"
        THEN Settled(m, "rejected", Wrapped("RecipeSearch", step.error), <<>>)
        ELSE m

\* Recipe Search client, lines 126-136: the catch of the first try.
Fallback(n, e) ==
    LET step == SearchFoodsRecipeAPIv2(e)
        m == Attempt(n, "secondary", step)
    IN  IF step.kind = "throw"
        THEN Settled(m, "rejected", Wrapped("RecipeSearch", step.error), <<>>)
        ELSE m

\* The first variant failed: the Food Database client rethrows (lines 186-188),
\* the Recipe Search client falls back.
PrimaryFailed(n, svc, e, cause) ==
    IF svc = "FoodDatabase"
    THEN Settled(n, "rejected", Wrapped(svc, cause), <<>>)
    ELSE Fallback(n, e)

\* EdamamService.searchFoods(query) up to its first await.
EdamamSearchFoods(n, svc, e) ==
    LET step == IF svc = "FoodDatabase" THEN SearchFoodDatabase(e)
                                        ELSE SearchFoodsRecipeAPI(e)
        m == Attempt([n EXCEPT !.entered = TRUE], "primary", step)
    IN  IF step.kind = "throw" THEN PrimaryFailed(m, svc, e, step.error) ELSE m

\* A guard that tests the text without trimming it.
BlankQueryUntrimmed(query) == query = <<>>

\* FoodSearchComponent.tsx line 59: !query.trim()
BlankQuery(query) == Trim(query) = <<>>

\* searchFoods(query) of the search input, up to its first await.
SearchFoods(query) ==
    /\ nutri.pc \in {"idle", "done"}
    /\ nutri' = IF BlankQuery(query)
                THEN Settled([NutriIdle EXCEPT !.query = query], "resolved", <<>>, <<>>)
                ELSE EdamamSearchFoods([NutriIdle EXCEPT !.query = query], service, env)
    /\ UNCHANGED <<env, service>>
    /\ UNCHANGED <<searchVars, storageVars, scannerVars, calcVars, homeVars,
                   formVars, laterVars>>

\* The pending fetch succeeded with a usable body: the search resolves.
FetchOk(results) ==
    /\ nutri.pc = "await"
    /\ results \in Responses(nutri.query)
    /\ nutri' = Settled([nutri EXCEPT ![IF nutri.secondary = "pending" THEN "secondary"
                                                                       ELSE "primary"] = "ok"],
                        "resolved", <<>>, results)
    /\ UNCHANGED <<env, service>>
    /\ UNCHANGED <<searchVars, storageVars, scannerVars, calcVars, homeVars,
                   formVars, laterVars>>

\* The pending fetch rejected, or the response was not ok.
FetchFails(cause) ==
    /\ nutri.pc = "await"
    /\ cause \in FetchErrors
    /\ nutri' = IF nutri.secondary = "pending"
                THEN Settled([nutri EXCEPT !.secondary = "failed"], "rejected",
                             Wrapped(service, cause), <<>>)
                ELSE PrimaryFailed([nutri EXCEPT !.primary = "failed"], service, env, cause)
    /\ UNCHANGED <<env, service>>
    /\ UNCHANGED <<searchVars, storageVars, scannerVars, calcVars, homeVars,
                   formVars, laterVars>>

CallSearchFoods == \E query \in Texts : SearchFoods(query)
FetchResolves == \E results \in Responses(nutri.query) : FetchOk(results)
FetchRejects == \E cause \in FetchErrors : FetchFails(cause)

(***************************************************************************)
(* Part IV.  Barcode scanner screen and product lookup.                    *)
(***************************************************************************)
Barcodes == {"4000417025005", "5449000000996"}

\* An optional field is <<>> when absent and <<value>> when present.
Optional(values) == {<<>>} \cup {<<v>> : v \in values}

\* OpenFoodFactsProduct.nutriments: energy-kcal_100g and energy_100g (kJ).
Nutriments == [kcal : Optional({0, 52}), kj : Optional({0, 2, 218})]

\* OpenFoodFactsProduct
Products == [product_name : Optional({"Cola"}), nutriments : Optional(Nutriments)]

\* OpenFoodFactsResponse
Bodies == [status : {0, 1, 2}, product : Optional(Products)]

\* What the fetch of the product URL comes to: the promise rejects, the
\* response is not ok, its body is not JSON, or it is ok with a body.
LookupResponses ==
    {[fetch |-> f, data |-> <<>>] : f \in {"rejected", "notOk", "malformed"}}
        \cup {[fetch |-> "ok", data |-> <<d>>] : d \in Bodies}

\* A number as a fraction; the kJ value divided by 4.184 is kj * 125 / 523.
Fraction(num, den) == [num |-> num, den |-> den]

KjToKcal(kj) == Fraction(kj * 125, 523)

\* Math.round: the nearest integer, halves towards plus infinity.
MathRound(x) == (2 * x.num + x.den) \div (2 * x.den)

\* Lines 44-50: calories = kcal || (kJ ? kJ / 4.184 : 0) || 0
ExtractCalories(product) ==
    IF product.nutriments = <<>> THEN Fraction(0, 1)
    ELSE LET n == product.nutriments[1]
         IN  IF n.kcal # <<>> /\ n.kcal[1] # 0 THEN Fraction(n.kcal[1], 1)
             ELSE IF n.kj # <<>> /\ n.kj[1] # 0 THEN KjToKcal(n.kj[1])
             ELSE Fraction(0, 1)

\* Line 41: product.product_name || 'Unknown Product'
ProductName(product) ==
    IF product.product_name = <<>> THEN "Unknown Product" ELSE product.product_name[1]

\* A test that leaves the status field out.
IsFoundAnyStatus(data) == data.product # <<>>

\* Line 39: data.status === 1 && data.product
IsFound(data) == data.status = 1 /\ data.product # <<>>

Shown(kind, prefill) == [kind |-> kind, prefill |-> prefill]

\* fetchProductData after its awaits: what the screen does with the response.
\*   "found"           navigate to AddFood with name and calories prefilled
\*   "foundNoCalories" alert 'Product Found', Add Manually prefills the name
\*   "notFound"        alert 'Product Not Found'
\*   "error"           alert 'Error' (the catch)
FetchProductData(response) ==
    IF response.fetch # "ok" THEN Shown("error", <<>>)
    ELSE LET data == response.data[1]
         IN  IF IsFound(data)
             THEN LET product == data.product[1]
                      calories == ExtractCalories(product)
                  IN  IF calories.num > 0
                      THEN Shown("found", <<[name |-> ProductName(product),
                                            calories |-> <<MathRound(calories)>>]>>)
                      ELSE Shown("foundNoCalories",
                                 <<[name |-> ProductName(product), calories |-> <<>>]>>)
             ELSE Shown("notFound", <<>>)

NoScreen == [barcode |-> "none", response |-> <<>>, kind |-> "none", prefill |-> <<>>,
             open |-> FALSE]

InitScanner ==
    /\ scanned = FALSE
    /\ isProcessing = FALSE
    /\ lookups = {}
    /\ screen = NoScreen

\* A handler that lets every scan event through.
ScanIgnoredNever == FALSE

\* if (scanned || isProcessing) return;  (line 107)
ScanIgnored == scanned \/ isProcessing

\* handleBarcodeScanned({data}): lines 106-112.  The event is delivered in
\* every state; the handler reads the state of the last render.
HandleBarcodeScanned(barcode) ==
    /\ IF ScanIgnored
       THEN UNCHANGED <<scanned, isProcessing, lookups>>
       ELSE /\ scanned' = TRUE
            /\ isProcessing' = TRUE
            /\ lookups' = lookups \cup {barcode}
    /\ UNCHANGED screen
    /\ UNCHANGED <<searchVars, storageVars, nutritionVars, calcVars, homeVars,
                   formVars, laterVars>>

\* fetchProductData from its first await to the end of finally.
LookupSettles(barcode, response) ==
    /\ barcode \in lookups
    /\ lookups' = lookups \ {barcode}
    /\ LET shown == FetchProductData(response)
       IN  screen' = [barcode |-> barcode, response |-> <<response>>, kind |-> shown.kind,
                      prefill |-> shown.prefill, open |-> shown.kind # "found"]
    /\ isProcessing' = FALSE
    /\ UNCHANGED scanned
    /\ UNCHANGED <<searchVars, storageVars, nutritionVars, calcVars, homeVars,
                   formVars, laterVars>>

\* 'Try Again' or 'Cancel' of the alert: setScanned(false).
PressTryAgain ==
    /\ screen.open
    /\ screen' = [screen EXCEPT !.open = FALSE]
    /\ scanned' = FALSE
    /\ UNCHANGED <<isProcessing, lookups>>
    /\ UNCHANGED <<searchVars, storageVars, nutritionVars, calcVars, homeVars,
                   formVars, laterVars>>

\* 'Add Manually' of the alert: navigate to AddFood.
PressAddManually ==
    /\ screen.open
    /\ screen' = [screen EXCEPT !.open = FALSE]
    /\ UNCHANGED <<scanned, isProcessing, lookups>>
    /\ UNCHANGED <<searchVars, storageVars, nutritionVars, calcVars, homeVars,
                   formVars, laterVars>>

\* The 'Scan Again' button, shown when scanned and disabled while processing.
PressScanAgain ==
    /\ scanned /\ ~isProcessing
    /\ ~screen.open
    /\ scanned' = FALSE
    /\ UNCHANGED <<isProcessing, lookups, screen>>
    /\ UNCHANGED <<searchVars, storageVars, nutritionVars, calcVars, homeVars,
                   formVars, laterVars>>

ScanBarcode == \E barcode \in Barcodes : HandleBarcodeScanned(barcode)
LookupResponds == \E barcode \in lookups, response \in LookupResponses :
                      LookupSettles(barcode, response)

(***************************************************************************)
(* Part V.  Calorie calculator (FoodCalculator).                           *)
(***************************************************************************)
\* ---- texts: a label is the sequence of its characters ----
UpperToLower == [A |-> "a", C |-> "c", L |-> "l", P |-> "p", S |-> "s", W |-> "w"]

\* String.prototype.toLowerCase
ToLowerCase(s) ==
    [i \in DOMAIN s |-> IF s[i] \in DOMAIN UpperToLower THEN UpperToLower[s[i]] ELSE s[i]]

\* String.prototype.includes
Includes(s, term) ==
    \E i \in 0..(Len(s) - Len(term)) : SubSeq(s, i + 1, i + Len(term)) = term

Digit(d) == <<"0", "1", "2", "3", "4", "5", "6", "7", "8", "9">>[d + 1]

\* The decimal text of a non-negative integer, as in `${n}`.
RECURSIVE DecimalText(_)
DecimalText(n) == IF n < 10 THEN <<Digit(n)>> ELSE Append(DecimalText(n \div 10), Digit(n % 10))

\* `${weight}g`
GramLabel(weight) == Append(DecimalText(weight), "g")

Abs(x) == IF x < 0 THEN -x ELSE x

\* ---- the inputs ----
\* A measure of a search result: label and optional weight in grams.
Measure(label, weight) == [label |-> label, weight |-> weight]

\* The measures a search result is built from. By their labels three are
\* common units; one has no weight and one weighs more than 500 g.
MeasurePool ==
    { Measure(<<"W", "h", "o", "l", "e">>, <<195>>),
      Measure(<<"S", "m", "a", "l", "l">>, <<60>>),
      Measure(<<"L", "o", "a", "f">>, <<600>>),
      Measure(<<"C", "u", "p">>, <<105>>),
      Measure(<<"S", "l", "i", "c", "e">>, <<100>>),
      Measure(<<"P", "i", "e", "c", "e">>, <<45>>),
      Measure(<<"S", "e", "r", "v", "i", "n", "g">>, <<>>) }

Range(s) == {s[i] : i \in DOMAIN s}

\* The lists of up to n different measures of the pool, in every order.
RECURSIVE MeasureLists(_)
MeasureLists(n) ==
    IF n = 0 THEN {<<>>}
    ELSE LET shorter == MeasureLists(n - 1)
         IN  shorter \cup UNION {{Append(l, m) : m \in MeasurePool \ Range(l)} :
                                     l \in {x \in shorter : Len(x) = n - 1}}

TargetWeights == {100, 300}

\* searchResult.measures: undefined, or a list of measures.
MeasureInputs(n) == {<<>>} \cup {<<l>> : l \in MeasureLists(n)}

CalcInput(fn, p, w, target, measures) ==
    [fn |-> fn, caloriesPer100g |-> p, weightInGrams |-> w, targetWeightGrams |-> target,
     measures |-> measures]

\* The calls of the three FoodCalculator functions, on results of up to n measures.
CalcInputs(n) ==
    {CalcInput("calculateCalories", p, w, 0, <<>>) :
         p \in 0..MaxCaloriesPer100g, w \in 0..MaxWeightInGrams}
    \cup {CalcInput("getDefaultMeasurement", 0, 0, t, ms) :
              t \in TargetWeights, ms \in MeasureInputs(n)}
    \cup {CalcInput("getWeightPresets", 0, 0, 0, ms) : ms \in MeasureInputs(n)}

NoResult == [pc |-> "none", value |-> <<>>, valid |-> <<>>]

InitCalculator(inputs) ==
    /\ calcIn \in inputs
    /\ calcOut = NoResult

\* ---- FoodCalculator ----
\* A calculator that truncates.
CalculateCaloriesTruncated(caloriesPer100g, weightInGrams) ==
    (caloriesPer100g * weightInGrams) \div 100

\* Lines 28-30: Math.round((caloriesPer100g * weightInGrams) / 100)
CalculateCalories(caloriesPer100g, weightInGrams) ==
    MathRound(Fraction(caloriesPer100g * weightInGrams, 100))

\* measure.weight as a condition: present and not 0.
Truthy(weight) == weight # <<>> /\ weight[1] # 0

\* Array.prototype.find: the element at the first place that satisfies the
\* test, <<>> (undefined) when no place does.
Find(list, hits) ==
    IF hits = {} THEN <<>> ELSE <<list[CHOOSE i \in hits : \A j \in hits : i <= j]>>

\* Lines 42-69.
GetDefaultMeasurement(measures, targetWeightGrams) ==
    LET gramDefault == [label |-> GramLabel(targetWeightGrams), weight |-> targetWeightGrams]
    IN  IF measures = <<>> \/ measures[1] = <<>> THEN gramDefault
        ELSE LET IsClose(m) == Truthy(m.weight)
                                   /\ Abs(m.weight[1] - targetWeightGrams) <= 20
                 IsCommon(m) == \/ Includes(ToLowerCase(m.label), <<"c", "u", "p">>)
                                \/ Includes(ToLowerCase(m.label), <<"p", "i", "e", "c", "e">>)
                                \/ Includes(ToLowerCase(m.label),
                                            <<"s", "e", "r", "v", "i", "n", "g">>)
                 closeMatch ==
                     Find(measures[1], {i \in DOMAIN measures[1] : IsClose(measures[1][i])})
                 commonMeasure ==
                     Find(measures[1], {i \in DOMAIN measures[1] : IsCommon(measures[1][i])})
             IN  IF closeMatch # <<>> /\ Truthy(closeMatch[1].weight)
                 THEN [label |-> closeMatch[1].label, weight |-> closeMatch[1].weight[1]]
                 ELSE IF commonMeasure # <<>> /\ Truthy(commonMeasure[1].weight)
                 THEN [label |-> commonMeasure[1].label, weight |-> commonMeasure[1].weight[1]]
                 ELSE gramDefault

CommonTerms ==
    { <<"c", "u", "p">>, <<"p", "i", "e", "c", "e">>, <<"s", "e", "r", "v", "i", "n", "g">>,
      <<"s", "l", "i", "c", "e">>, <<"t", "a", "b", "l", "e", "s", "p", "o", "o", "n">>,
      <<"t", "e", "a", "s", "p", "o", "o", "n">>, <<"o", "u", "n", "c", "e">>,
      <<"i", "t", "e", "m">> }

\* Lines 115-118.
IsCommonMeasure(label) == \E term \in CommonTerms : Includes(ToLowerCase(label), term)

\* A comparator with the two groups the other way round.
CompareMeasuresSwapped(a, b) ==
    IF IsCommonMeasure(a.label) # IsCommonMeasure(b.label)
    THEN (IF IsCommonMeasure(b.label) THEN -1 ELSE 1)
    ELSE a.weight[1] - b.weight[1]

\* Lines 85-93: the comparator handed to sort.
CompareMeasures(a, b) ==
    IF IsCommonMeasure(a.label) # IsCommonMeasure(b.label)
    THEN (IF IsCommonMeasure(b.label) THEN 1 ELSE -1)
    ELSE a.weight[1] - b.weight[1]

\* Array.prototype.sort is stable: an element goes behind every element that
\* does not compare greater than it.
RECURSIVE InsertSorted(_, _)
InsertSorted(sorted, x) ==
    IF sorted = <<>> THEN <<x>>
    ELSE IF CompareMeasures(sorted[Len(sorted)], x) <= 0 THEN Append(sorted, x)
    ELSE Append(InsertSorted(SubSeq(sorted, 1, Len(sorted) - 1), x), sorted[Len(sorted)])

RECURSIVE Sort(_)
Sort(list) ==
    IF list = <<>> THEN <<>>
    ELSE InsertSorted(Sort(SubSeq(list, 1, Len(list) - 1)), list[Len(list)])

\* Array.prototype.slice(0, n)
Slice(list, n) == SubSeq(list, 1, IF Len(list) < n THEN Len(list) ELSE n)

\* Lines 83-98: filter, sort, slice(0, 4), map.
ValidMeasures(measures) ==
    LET kept == SelectSeq(measures, LAMBDA m : Truthy(m.weight) /\ m.weight[1] > 0
                                                 /\ m.weight[1] <= 500)
        first == Slice(Sort(kept), 4)
    IN  [i \in DOMAIN first |-> [label |-> first[i].label, weight |-> first[i].weight[1]]]

\* A table of gram amounts without 150 and 250.
GramWeightsRepeated == <<50, 100, 200, 50, 100>>

\* Line 102.
GramWeights == <<50, 100, 150, 200, 250>>

\* A test that lets every gram amount through.
TooCloseNever(presets, weight) == FALSE

\* Line 104: validMeasures.some(m => Math.abs(m.weight - weight) < 10)
TooClose(presets, weight) ==
    \E i \in DOMAIN presets : Abs(presets[i].weight - weight) < 10

\* Lines 101-110: the while loop. A pass that finds no gram amount to add
\* leaves the list as it is, and the loop goes round again for ever.
RECURSIVE Backfill(_)
Backfill(presets) ==
    IF Len(presets) >= 4 THEN [pc |-> "return", presets |-> presets]
    ELSE LET free == {k \in DOMAIN GramWeights : ~TooClose(presets, GramWeights[k])}
         IN  IF free = {} THEN [pc |-> "while", presets |-> presets]
             ELSE LET weight == GramWeights[CHOOSE k \in free : \A j \in free : k <= j]
                  IN  Backfill(Append(presets, [label |-> GramLabel(weight),
                                                weight |-> weight]))

\* Lines 71-113. valid: the measures taken before the backfill.
GetWeightPresets(measures) ==
    IF measures = <<>> \/ measures[1] = <<>>
    THEN [pc |-> "return", valid |-> <<>>,
          presets |-> [k \in 1..4 |-> [label |-> GramLabel(GramWeights[k]),
                                       weight |-> GramWeights[k]]]]
    ELSE LET valid == ValidMeasures(measures[1])
             filled == Backfill(valid)
         IN  [pc |-> filled.pc, valid |-> valid, presets |-> Slice(filled.presets, 4)]

\* ---- the calls ----
ApplyCalculateCalories ==
    /\ calcIn.fn = "calculateCalories"
    /\ calcOut.pc = "none"
    /\ calcOut' = [pc |-> "return", valid |-> <<>>,
                   value |-> <<CalculateCalories(calcIn.caloriesPer100g,
                                                 calcIn.weightInGrams)>>]
    /\ UNCHANGED calcIn
    /\ UNCHANGED <<searchVars, storageVars, nutritionVars, scannerVars, homeVars,
                   formVars, laterVars>>

ApplyGetDefaultMeasurement ==
    /\ calcIn.fn = "getDefaultMeasurement"
    /\ calcOut.pc = "none"
    /\ calcOut' = [pc |-> "return", valid |-> <<>>,
                   value |-> <<GetDefaultMeasurement(calcIn.measures,
                                                     calcIn.targetWeightGrams)>>]
    /\ UNCHANGED calcIn
    /\ UNCHANGED <<searchVars, storageVars, nutritionVars, scannerVars, homeVars,
                   formVars, laterVars>>

ApplyGetWeightPresets ==
    /\ calcIn.fn = "getWeightPresets"
    /\ calcOut.pc = "none"
    /\ LET r == GetWeightPresets(calcIn.measures)
       IN  calcOut' = [pc |-> r.pc, valid |-> r.valid, value |-> <<r.presets>>]
    /\ UNCHANGED calcIn
    /\ UNCHANGED <<searchVars, storageVars, nutritionVars, scannerVars, homeVars,
                   formVars, laterVars>>

(***************************************************************************)
(* Part VI.  Home screen.                                                  *)
(***************************************************************************)
InitHome ==
    /\ todayEntries = <<>>
    /\ settings = [dailyGoal |-> DefaultDailyGoal]
    /\ loading = TRUE
    /\ homeLoad = <<>>
    /\ summary = <<>>

\* The entries AddFoodScreen logs for a meal: the calories are the user's.
LoggedMeals(n) ==
    {[id |-> n, name |-> "pizza", calories |-> 1250, date |-> d] : d \in Dates}

CallLogMeal == \E e \in LoggedMeals(nOps + 1) : Start("addFoodLogEntry", e)

\* A screen that never shows a negative remainder.
RemainingCaloriesClamped(goal, total) == IF goal - total < 0 THEN 0 ELSE goal - total

\* Line 46: settings.dailyGoal - totalCalories
RemainingCalories(goal, total) == goal - total

\* Line 45: todayEntries.reduce((sum, entry) => sum + entry.calories, 0)
RECURSIVE Reduce(_, _)
Reduce(entries, sum) ==
    IF entries = <<>> THEN sum ELSE Reduce(Tail(entries), sum + Head(entries).calories)

TotalCalories(entries) == Reduce(entries, 0)

\* useFocusEffect: loadData runs up to its await; getFoodLogForDate(today)
\* and getSettings() are both started.
HomeFocus(today) ==
    /\ homeLoad = <<>>
    /\ homeLoad' = <<[today |-> today, entries |-> <<>>, settings |-> <<>>,
                      read |-> <<>>]>>
    /\ UNCHANGED <<todayEntries, settings, loading, summary>>
    /\ UNCHANGED <<searchVars, storageVars, nutritionVars, scannerVars, calcVars,
                   formVars, laterVars>>

\* The getItem of getFoodLogForDate settles. read: what was stored at that
\* moment and whether the store read succeeded.
HomeReadLog(readOk) ==
    /\ homeLoad # <<>>
    /\ homeLoad[1].entries = <<>>
    /\ homeLoad' = <<[homeLoad[1] EXCEPT
                        !.entries = <<GetFoodLogForDate(store[KEYS.FOOD_LOG], readOk,
                                                        homeLoad[1].today).value[1]>>,
                        !.read = <<[ok |-> readOk, stored |-> StoredFoodLog]>>]>>
    /\ UNCHANGED <<todayEntries, settings, loading, summary>>
    /\ UNCHANGED <<searchVars, storageVars, nutritionVars, scannerVars, calcVars,
                   formVars, laterVars>>

\* The getItem of getSettings settles.
HomeReadSettings(readOk) ==
    /\ homeLoad # <<>>
    /\ homeLoad[1].settings = <<>>
    /\ homeLoad' = <<[homeLoad[1] EXCEPT
                        !.settings = <<GetSettings(store[KEYS.SETTINGS], readOk).value[1]>>]>>
    /\ UNCHANGED <<todayEntries, settings, loading, summary>>
    /\ UNCHANGED <<searchVars, storageVars, nutritionVars, scannerVars, calcVars,
                   formVars, laterVars>>

\* Promise.all resolved: lines 29-30 and 35, and the screen is rendered again.
HomeLoaded ==
    /\ homeLoad # <<>>
    /\ homeLoad[1].entries # <<>>
    /\ homeLoad[1].settings # <<>>
    /\ todayEntries' = homeLoad[1].entries[1]
    /\ settings' = homeLoad[1].settings[1]
    /\ loading' = FALSE
    /\ homeLoad' = <<>>
    /\ summary' = <<[goal |-> settings'.dailyGoal,
                     consumed |-> TotalCalories(todayEntries'),
                     remaining |-> RemainingCalories(settings'.dailyGoal,
                                                     TotalCalories(todayEntries')),
                     today |-> homeLoad[1].today,
                     read |-> homeLoad[1].read[1]]>>
    /\ UNCHANGED <<searchVars, storageVars, nutritionVars, scannerVars, calcVars,
                   formVars, laterVars>>

\* getTodayDateString() on the day the screen is looked at: the later of Dates.
Today == "2024-05-02"

FocusHome == HomeFocus(Today)
HomeLogRead == \E readOk \in BOOLEAN : HomeReadLog(readOk)
HomeSettingsRead == \E readOk \in BOOLEAN : HomeReadSettings(readOk)

(***************************************************************************)
(* Part VII.  Entry form of the food search component.                     *)
(***************************************************************************)
\* defaultWeight = "100": no caller of the component passes the prop.
DefaultWeight == <<"1", "0", "0">>

\* The rows of a result list that can be tapped: FoodSearchResult.label and
\* .calories (kcal per 100 g, rounded by the client, 0 for less than 0.5).
FoodResults ==
    { [label |-> <<"e", "g", "g">>, calories |-> 155],
      [label |-> <<"t", "e", "a">>, calories |-> 0] }

\* Texts typed into the weight box, the calories box and the name box.
WeightTexts == { <<>>, <<"0">>, <<"2", ".", "5">>, <<"-", "5">> }
CalorieTexts == { <<"9", "0">>, <<"x">> }
NameTexts == { <<"p", "i", "e">> }

\* The quick weights of lines 247-263.
QuickWeights == {50, 100, 150, 200}

\* Number.prototype.toString of an integer.
NumberText(n) == IF n < 0 THEN <<"-">> \o DecimalText(-n) ELSE DecimalText(n)

IsDigit(c) == \E d \in 0..9 : Digit(d) = c

DigitValue(c) == CHOOSE d \in 0..9 : Digit(d) = c

\* The longest prefix of s made of decimal digits.
RECURSIVE LeadingDigits(_)
LeadingDigits(s) ==
    IF s # <<>> /\ IsDigit(Head(s)) THEN <<Head(s)>> \o LeadingDigits(Tail(s)) ELSE <<>>

RECURSIVE DigitsValue(_)
DigitsValue(ds) ==
    IF ds = <<>> THEN 0
    ELSE 10 * DigitsValue(SubSeq(ds, 1, Len(ds) - 1)) + DigitValue(ds[Len(ds)])

RECURSIVE PowerOfTen(_)
PowerOfTen(k) == IF k = 0 THEN 1 ELSE 10 * PowerOfTen(k - 1)

\* NaN, for the results of parseInt and parseFloat: <<>>, a number n is <<n>>.
NaN == <<>>

Unsigned(s) == IF s # <<>> /\ Head(s) \in {"-", "+"} THEN Tail(s) ELSE s

Sign(s) == IF s # <<>> /\ Head(s) = "-" THEN -1 ELSE 1

\* parseFloat(text): leading white space skipped, then the longest prefix that
\* is a decimal literal (sign, digits, a point and digits); NaN without one.
ParseFloat(text) ==
    LET t == TrimStart(text)
        u == Unsigned(t)
        whole == LeadingDigits(u)
        rest == SubSeq(u, Len(whole) + 1, Len(u))
        decimals == IF rest # <<>> /\ Head(rest) = "." THEN LeadingDigits(Tail(rest)) ELSE <<>>
    IN  IF whole = <<>> /\ decimals = <<>>
        THEN NaN
        ELSE <<Fraction(Sign(t) * DigitsValue(whole \o decimals), PowerOfTen(Len(decimals)))>>

\* parseInt(text): leading white space skipped, then sign and digits.
ParseInt(text) ==
    LET t == TrimStart(text)
        whole == LeadingDigits(Unsigned(t))
    IN  IF whole = <<>> THEN NaN ELSE <<Sign(t) * DigitsValue(whole)>>

\* FoodCalculator.calculateCalories on a weight that parseFloat returned.
CalculateCaloriesOfWeight(caloriesPer100g, weightValue) ==
    MathRound(Fraction(caloriesPer100g * weightValue.num, 100 * weightValue.den))

\* Lines 43-46: the form fields; caloriesPer100g is <<>> for null.
InitialForm ==
    [foodName |-> <<>>, weight |-> DefaultWeight, calories |-> <<>>, caloriesPer100g |-> <<>>]

\* What handleAddFood did last: the result it passed to onFoodSelected with the
\* caloriesPer100g state of that moment, or the alert it raised.
NoSelection == [passed |-> <<>>, per100g |-> <<>>, alert |-> "none"]

InitForm ==
    /\ form = InitialForm
    /\ selection = NoSelection

\* A selectSearchResult that leaves the weight box as it is.
WeightOnSelectKept(current) == current

\* Line 105: setWeight(defaultWeight)
WeightOnSelect(current) == DefaultWeight

\* selectSearchResult(result): a row of the result list is tapped.
SelectSearchResult(result) ==
    /\ mounted
    /\ searchResults # <<>>
    /\ form' = [foodName |-> result.label,
                caloriesPer100g |-> <<result.calories>>,
                weight |-> WeightOnSelect(form.weight),
                calories |-> NumberText(result.calories)]
    /\ searchResults' = <<>>
    /\ resultsFrom' = 0
    /\ searchQuery' = <<>>
    /\ UNCHANGED <<isSearching, searchTimeoutRef, timers, inflight, mounted, nextTimerId,
                   nextSeq, sinceInput, lastTyped>>
    /\ UNCHANGED <<selection, exceptForm>>

\* The component is unmounted: the cleanup of useEffect(() => ..., []) runs
\* and the component's state is discarded.
Unmount ==
    /\ mounted
    /\ mounted' = FALSE
    /\ timers' = CancelPending(timers, searchTimeoutRef)
    /\ searchQuery' = <<>>
    /\ searchResults' = <<>>
    /\ resultsFrom' = 0
    /\ isSearching' = FALSE
    /\ form' = InitialForm
    /\ UNCHANGED <<searchTimeoutRef, inflight, nextTimerId, nextSeq, sinceInput, lastTyped>>
    /\ UNCHANGED <<selection, exceptForm>>

\* Line 116: !isNaN(weightValue) && weightValue > 0
ValidWeight(weightValue) == weightValue # NaN /\ weightValue[1].num > 0

\* handleWeightChange(newWeight): the weight box is edited or a quick weight pressed.
HandleWeightChange(newWeight) ==
    /\ mounted
    /\ form' = [form EXCEPT
                  !.weight = newWeight,
                  !.calories =
                      IF /\ form.caloriesPer100g # <<>>
                         /\ Trim(newWeight) # <<>>
                         /\ ValidWeight(ParseFloat(newWeight))
                      THEN NumberText(CalculateCaloriesOfWeight(form.caloriesPer100g[1],
                                                                ParseFloat(newWeight)[1]))
                      ELSE @]
    /\ UNCHANGED <<selection, searchVars, exceptForm>>

\* Line 276: editable={caloriesPer100g === null}
CaloriesEditable == form.caloriesPer100g = <<>>

\* handleManualCalorieChange(newCalories): the calories box is edited.
HandleManualCalorieChange(newCalories) ==
    /\ mounted
    /\ CaloriesEditable
    /\ form' = IF form.caloriesPer100g # <<>>
               THEN [form EXCEPT !.calories = newCalories, !.caloriesPer100g = <<>>,
                                 !.weight = DefaultWeight]
               ELSE [form EXCEPT !.calories = newCalories]
    /\ UNCHANGED <<selection, searchVars, exceptForm>>

\* onChangeText={setFoodName}
SetFoodName(text) ==
    /\ mounted
    /\ form' = [form EXCEPT !.foodName = text]
    /\ UNCHANGED <<selection, searchVars, exceptForm>>

\* Lines 149-154: the FoodSelectionResult; caloriesPer100g || (calorieValue * 100 / weightValue)
SelectionResult(calorieValue, weightValue) ==
    [name |-> Trim(form.foodName),
     calories |-> calorieValue,
     weight |-> weightValue,
     caloriesPer100g |->
         IF form.caloriesPer100g # <<>> /\ form.caloriesPer100g[1] # 0
         THEN Fraction(form.caloriesPer100g[1], 1)
         ELSE Fraction(calorieValue * 100 * weightValue.den, weightValue.num)]

\* handleAddFood: the Add button is pressed.
HandleAddFood ==
    LET calorieValue == ParseInt(form.calories)
        weightValue == ParseFloat(form.weight)
        Alert(message) == /\ selection' = [NoSelection EXCEPT !.alert = message]
                          /\ UNCHANGED form
    IN  /\ mounted
        /\ IF Trim(form.foodName) = <<>> \/ Trim(form.calories) = <<>>
           THEN Alert("Please enter both food name and calories")
           ELSE IF calorieValue = NaN \/ calorieValue[1] < 0
                THEN Alert("Please enter a valid calorie amount")
                ELSE IF ~ValidWeight(weightValue)
                     THEN Alert("Please enter a valid weight")
                     ELSE /\ selection' = [passed |-> <<SelectionResult(calorieValue[1],
                                                                        weightValue[1])>>,
                                           per100g |-> form.caloriesPer100g,
                                           alert |-> "none"]
                          /\ form' = InitialForm
        /\ UNCHANGED <<searchVars, exceptForm>>

TapResult == \E result \in FoodResults : SelectSearchResult(result)
TypeQuery == HandleSearchTextChange(<<"a", "b">>)
ChangeWeight == \E newWeight \in WeightTexts : HandleWeightChange(newWeight)
PressQuickWeight ==
    /\ form.caloriesPer100g # <<>>
    /\ \E presetWeight \in QuickWeights : HandleWeightChange(NumberText(presetWeight))
ChangeCalories == \E newCalories \in CalorieTexts : HandleManualCalorieChange(newCalories)
ChangeFoodName == \E text \in NameTexts : SetFoodName(text)

(***************************************************************************)
(* Part VIII.  Parsing of the food database response.                      *)
(***************************************************************************)
\* The characters of the labels in alphabetical order, the space first.
Alphabet == <<" ", "a", "b", "e", "i", "l", "n", "p", "r", "t", "w">>

Rank(c) == CHOOSE k \in DOMAIN Alphabet : Alphabet[k] = c

\* The locale of the device: the collation of "en" puts the lower-case form
\* of a letter first, that of "da" the upper-case form.
Locales == {"en", "da"}

\* data.parsed[i].food: foodId, label and nutrients.ENERC_KCAL (in tenths of a kcal).
ParsedFoods ==
    { [foodId |-> "f1", label |-> <<"b", "a", "n", "a", "n", "a">>, kcalTenths |-> 890],
      [foodId |-> "f2", label |-> <<"A", "p", "p", "l", "e">>, kcalTenths |-> 520],
      [foodId |-> "f3", label |-> <<"a", "p", "p", "l", "e", " ", "p", "i", "e">>,
       kcalTenths |-> 2365],
      [foodId |-> "f4", label |-> <<"a", "p", "p", "l", "e">>, kcalTenths |-> 524],
      [foodId |-> "f5", label |-> <<"w", "a", "t", "e", "r">>, kcalTenths |-> 0] }

\* The lists of up to n different foods.
RECURSIVE ParsedLists(_)
ParsedLists(n) ==
    IF n = 0 THEN {<<>>}
    ELSE ParsedLists(n - 1) \cup
         UNION {{Append(l, f) : f \in ParsedFoods \ Range(l)} :
                    l \in {k \in ParsedLists(n - 1) : Len(k) = n - 1}}

ParseInput(items, locale) == [items |-> items, locale |-> locale]

InitParse(inputs) ==
    /\ parsed \in inputs
    /\ returned = <<>>

\* Comparison of two lower-case strings letter by letter, a prefix first.
RECURSIVE ComparePrimary(_, _)
ComparePrimary(a, b) ==
    IF a = <<>> THEN (IF b = <<>> THEN 0 ELSE -1)
    ELSE IF b = <<>> THEN 1
    ELSE IF Rank(Head(a)) # Rank(Head(b))
         THEN (IF Rank(Head(a)) < Rank(Head(b)) THEN -1 ELSE 1)
         ELSE ComparePrimary(Tail(a), Tail(b))

\* Two strings with the same letters: the first place where the case differs decides.
RECURSIVE CompareCase(_, _, _)
CompareCase(a, b, locale) ==
    IF a = <<>> THEN 0
    ELSE IF Head(a) = Head(b) THEN CompareCase(Tail(a), Tail(b), locale)
    ELSE IF (Head(a) \notin DOMAIN UpperToLower) = (locale = "en") THEN -1 ELSE 1

\* String.prototype.localeCompare with the default collator: the letters are
\* compared first, their case only between strings with the same letters.
LocaleCompare(a, b, locale) ==
    LET letters == ComparePrimary(ToLowerCase(a), ToLowerCase(b))
    IN  IF letters # 0 THEN letters ELSE CompareCase(a, b, locale)

\* Line 158: item.food && item.food.nutrients && item.food.nutrients.ENERC_KCAL > 0
HasCalories(food) == food.kcalTenths > 0

\* Lines 159-174: the FoodSearchResult of a parsed food.
ToResult(food) ==
    [label |-> food.label, calories |-> MathRound(Fraction(food.kcalTenths, 10)),
     id |-> food.foodId]

\* Line 175: .sort((a, b) => a.label.localeCompare(b.label)), a stable sort.
RECURSIVE InsertByLabel(_, _, _)
InsertByLabel(sorted, x, locale) ==
    IF sorted = <<>> THEN <<x>>
    ELSE IF LocaleCompare(sorted[Len(sorted)].label, x.label, locale) <= 0
         THEN Append(sorted, x)
         ELSE Append(InsertByLabel(SubSeq(sorted, 1, Len(sorted) - 1), x, locale),
                     sorted[Len(sorted)])

RECURSIVE SortByLabel(_, _)
SortByLabel(list, locale) ==
    IF list = <<>> THEN <<>>
    ELSE InsertByLabel(SortByLabel(SubSeq(list, 1, Len(list) - 1), locale),
                       list[Len(list)], locale)

\* Lines 156-178: the list searchFoodDatabase returns for data.parsed = items.
ParseFoodDatabase(items, locale) ==
    LET kept == SelectSeq(items, HasCalories)
    IN  SortByLabel([i \in DOMAIN kept |-> ToResult(kept[i])], locale)

\* searchFoodDatabase after response.json().
ReturnResults ==
    /\ returned = <<>>
    /\ returned' = <<ParseFoodDatabase(parsed.items, parsed.locale)>>
    /\ UNCHANGED parsed
    /\ UNCHANGED <<searchVars, storageVars, nutritionVars, scannerVars, calcVars, homeVars,
                   formVars, settingsVars, addVars>>

(***************************************************************************)
(* Part IX.  Settings screen.                                              *)
(***************************************************************************)
\* Texts typed into the daily goal box.
GoalTexts == { <<>>, <<"0">>, <<"-", "5">>, <<"5", "0", "0">>, <<"1", "8", "x">>,
               <<"2", "2", "0", "0">> }

\* Lines 132-154: the quick presets.
GoalPresets == {1500, 2000, 2500}

\* Lines 20-22, and no dialog on screen.
InitialSettingsScreen ==
    [dailyGoal |-> <<"2", "0", "0", "0">>, loading |-> TRUE, saving |-> FALSE,
     alert |-> "none", pending |-> <<>>]

InitSettingsScreen == settingsScreen = InitialSettingsScreen

\* The form is on screen and no dialog covers it.
SettingsFormOpen == ~settingsScreen.loading /\ settingsScreen.alert = "none"

\* loadSettings: getSettings settles (it never rejects) and the box is filled.
LoadSettings(readOk) ==
    /\ settingsScreen.loading
    /\ settingsScreen' =
           [settingsScreen EXCEPT
               !.dailyGoal = NumberText(GetSettings(store[KEYS.SETTINGS], readOk).value[1].dailyGoal),
               !.loading = FALSE]
    /\ UNCHANGED <<coreVars, storageVars, addVars>>

\* onChangeText={setDailyGoal}, and the setDailyGoal of a preset button.
SetDailyGoal(text) ==
    /\ SettingsFormOpen
    /\ settingsScreen' = [settingsScreen EXCEPT !.dailyGoal = text]
    /\ UNCHANGED <<coreVars, storageVars, addVars>>

\* A check that lets every number through.
GoalRejectedIfNaN(goalValue) == goalValue = NaN

\* Line 43: isNaN(goalValue) || goalValue <= 0
GoalRejected(goalValue) == goalValue = NaN \/ goalValue[1] <= 0

\* Line 48: goalValue < 800 || goalValue > 5000
GoalUnusual(goalValue) == goalValue < 800 \/ goalValue > 5000

\* performSave(goalValue) up to its await: StorageService.saveSettings is called.
PerformSave(goalValue) ==
    /\ StartCall("saveSettings", [dailyGoal |-> goalValue])
    /\ settingsScreen' = [settingsScreen EXCEPT !.saving = TRUE, !.alert = "none",
                                                !.pending = <<>>]
    /\ UNCHANGED <<coreVars, addVars>>

\* saveSettings: the Save Settings button is pressed (disabled while saving).
SaveSettings ==
    LET goalValue == ParseInt(settingsScreen.dailyGoal)
    IN  /\ SettingsFormOpen
        /\ ~settingsScreen.saving
        /\ IF GoalRejected(goalValue)
           THEN /\ settingsScreen' = [settingsScreen EXCEPT !.alert = "Validation Error"]
                /\ UNCHANGED <<coreVars, storageVars, addVars>>
           ELSE IF GoalUnusual(goalValue[1])
                THEN /\ settingsScreen' = [settingsScreen EXCEPT !.alert = "Warning",
                                                                 !.pending = goalValue]
                     /\ UNCHANGED <<coreVars, storageVars, addVars>>
                ELSE PerformSave(goalValue[1])

\* The Continue button of the warning: () => performSave(goalValue)
ContinueSave ==
    /\ settingsScreen.alert = "Warning"
    /\ PerformSave(settingsScreen.pending[1])

\* performSave after its await: the alert of the outcome, and finally.
SaveReturns ==
    /\ settingsScreen.saving
    /\ Quiet
    /\ settingsScreen' = [settingsScreen EXCEPT
                             !.saving = FALSE,
                             !.alert = IF last.outcome = "resolved" THEN "Success" ELSE "Error"]
    /\ UNCHANGED <<coreVars, storageVars, addVars>>

\* resetToDefault: the Reset to Default button is pressed.
ResetToDefault ==
    /\ SettingsFormOpen
    /\ settingsScreen' = [settingsScreen EXCEPT !.alert = "Reset to Default"]
    /\ UNCHANGED <<coreVars, storageVars, addVars>>

\* A button of the dialog on screen is pressed: Reset sets the box to 2000, the
\* OK of the success alert goes back (the screen is unmounted), every other
\* button only closes the dialog.
PressAlertButton(confirm) ==
    /\ settingsScreen.alert # "none"
    /\ confirm => settingsScreen.alert \in {"Reset to Default", "Success"}
    /\ settingsScreen.alert = "Success" => confirm
    /\ settingsScreen' =
           IF settingsScreen.alert = "Success" /\ confirm
           THEN InitialSettingsScreen
           ELSE [settingsScreen EXCEPT
                    !.alert = "none",
                    !.pending = <<>>,
                    !.dailyGoal = IF settingsScreen.alert = "Reset to Default" /\ confirm
                                  THEN NumberText(DefaultDailyGoal) ELSE @]
    /\ UNCHANGED <<coreVars, storageVars, addVars>>

SettingsLoaded == \E readOk \in BOOLEAN : LoadSettings(readOk)
TypeGoal == \E text \in GoalTexts : SetDailyGoal(text)
PressGoalPreset == \E goal \in GoalPresets : SetDailyGoal(NumberText(goal))
CloseAlert == \E confirm \in BOOLEAN : PressAlertButton(confirm)

(***************************************************************************)
(* Part X.  Add food screen.                                               *)
(***************************************************************************)
\* The screen exists in two versions: one built on FoodSearchComponent
\* ("Component"), one with a form of its own ("OwnForm").
\*   isAdding  useState(false)
\*   ready     the form holds a name and a calorie amount that pass the checks
\*   alert     the Alert on display
\*   mounted   the screen is on the navigation stack
AddScreenVariants == {"Component", "OwnForm"}

InitialAddScreen(variant) ==
    [variant |-> variant, isAdding |-> FALSE, ready |-> FALSE, alert |-> "none",
     mounted |-> TRUE]

InitAddScreen(variants) == addScreen \in {InitialAddScreen(v) : v \in variants}

\* {isAdding && <View style={styles.loadingOverlay}>}: the overlay covers the
\* whole screen, the component's Add button included.
OverlayShown == addScreen.isAdding

\* An Add button that is never disabled.
AddButtonDisabledNever == FALSE

\* disabled={isAdding} of the Add button of the screen's own form.
AddButtonDisabled == addScreen.isAdding

\* A press can reach the Add button.
AddButtonPressable ==
    /\ addScreen.mounted
    /\ addScreen.alert = "none"
    /\ IF addScreen.variant = "Component" THEN ~OverlayShown ELSE ~AddButtonDisabled

\* The name and the calories are typed (the keyboard stays usable under the
\* overlay) or cleared.
EditAddForm(ready) ==
    /\ addScreen.mounted
    /\ addScreen.alert = "none"
    /\ addScreen.ready # ready
    /\ addScreen' = [addScreen EXCEPT !.ready = ready]
    /\ UNCHANGED <<coreVars, storageVars, settingsVars>>

\* The Add button is pressed.  handleAddFood of the component hands the
\* result to handleFoodSelected and resets the form; addFood of the own form
\* keeps it.  Both run up to await StorageService.addFoodLogEntry(entry).
PressAdd ==
    /\ AddButtonPressable
    /\ IF ~addScreen.ready
       THEN /\ addScreen' = [addScreen EXCEPT !.alert = "Validation Error"]
            /\ UNCHANGED storageVars
       ELSE /\ \E entry \in NewEntries(nOps + 1) : StartCall("addFoodLogEntry", entry)
            /\ addScreen' = [addScreen EXCEPT
                                !.isAdding = TRUE,
                                !.ready = IF addScreen.variant = "Component"
                                          THEN FALSE ELSE addScreen.ready]
    /\ UNCHANGED <<coreVars, settingsVars>>

\* handleFoodSelected / addFood after the await: the alert, then the finally.
AddReturns ==
    /\ addScreen.isAdding
    /\ Quiet
    /\ addScreen' = [addScreen EXCEPT
                        !.isAdding = FALSE,
                        !.alert = IF last.outcome = "resolved" THEN "Success" ELSE "Error"]
    /\ UNCHANGED <<coreVars, storageVars, settingsVars>>

\* The button of the alert: OK of 'Success' goes back, the others close it.
CloseAddAlert ==
    /\ addScreen.alert # "none"
    /\ addScreen' = [addScreen EXCEPT !.alert = "none",
                                      !.mounted = (addScreen.alert # "Success")]
    /\ UNCHANGED <<coreVars, storageVars, settingsVars>>

\* The screen is opened again from the home screen.
OpenAddScreen ==
    /\ ~addScreen.mounted
    /\ addScreen' = InitialAddScreen(addScreen.variant)
    /\ UNCHANGED <<coreVars, storageVars, settingsVars>>

FillAddForm == \E ready \in BOOLEAN : EditAddForm(ready)

(***************************************************************************)
(* Specifications.                                                         *)
(***************************************************************************)
\* The later parts start as their screens mount.
InitLater ==
    /\ InitForm
    /\ InitParse({ParseInput(<<>>, "en")})
    /\ InitSettingsScreen
    /\ InitAddScreen({"OwnForm"})

Init ==
    /\ InitSearch
    /\ InitStorage
    /\ InitNutrition({ConfiguredEnv}, {"FoodDatabase"})
    /\ InitScanner
    /\ InitCalculator({CalcInput("calculateCalories", 200, 100, 0, <<>>)})
    /\ InitHome
    /\ InitLater

\* The food search input.
NextSearch ==
    \/ TypeText
    \/ Tick
    \/ FireTimer
    \/ ResolveSearch
    \/ RejectSearch
    \/ TapResult
    \/ Unmount

SpecSearch == Init /\ [][NextSearch]_vars

\* Every StorageService operation, one call at a time.
NextStorage ==
    \/ Quiet /\ CallGetFoodLog
    \/ Quiet /\ CallGetFoodLogForDate
    \/ Quiet /\ CallSaveFoodLog
    \/ Quiet /\ CallAddFoodLogEntry
    \/ Quiet /\ CallGetRecipes
    \/ Quiet /\ CallSaveRecipes
    \/ Quiet /\ CallAddRecipe
    \/ Quiet /\ CallDeleteRecipe
    \/ Quiet /\ CallGetSettings
    \/ Quiet /\ CallSaveSettings
    \/ ReadStep
    \/ WriteStep

SpecStorage == Init /\ [][NextStorage]_vars

\* The recipe operations, one call at a time.
NextRecipes ==
    \/ Quiet /\ CallGetRecipes
    \/ Quiet /\ CallSaveRecipes
    \/ Quiet /\ CallAddRecipe
    \/ Quiet /\ CallDeleteRecipe
    \/ ReadStep
    \/ WriteStep

SpecRecipes == Init /\ [][NextRecipes]_vars

\* Food log appends, with up to MaxCalls calls overlapping.
NextFoodLog ==
    \/ CallAddFoodLogEntry
    \/ CallGetFoodLog
    \/ ReadStep
    \/ WriteStep

SpecFoodLog == Init /\ [][NextFoodLog]_vars

\* Recipe upserts and deletes, with up to MaxCalls calls overlapping: one
\* recipe saved in two versions, and a second recipe.
RacedRecipes == {r \in Recipes : r.id = 1} \cup {SoupRecipe(2)}

CallAddRacedRecipe == \E r \in RacedRecipes : Start("addRecipe", r)
CallDeleteRacedRecipe == \E r \in RacedRecipes : Start("deleteRecipe", r.id)

NextRecipeRace ==
    \/ CallAddRacedRecipe
    \/ CallDeleteRacedRecipe
    \/ ReadStep
    \/ WriteStep

SpecRecipeRace == Init /\ [][NextRecipeRace]_vars

\* The add food screen, in either version, as the only caller of the gateway.
InitAnyAddScreen ==
    /\ InitSearch
    /\ InitStorage
    /\ InitNutrition({ConfiguredEnv}, {"FoodDatabase"})
    /\ InitScanner
    /\ InitCalculator({CalcInput("calculateCalories", 200, 100, 0, <<>>)})
    /\ InitHome
    /\ InitForm
    /\ InitParse({ParseInput(<<>>, "en")})
    /\ InitSettingsScreen
    /\ InitAddScreen(AddScreenVariants)

NextAddFood ==
    \/ FillAddForm
    \/ PressAdd
    \/ ReadStep
    \/ WriteStep
    \/ AddReturns
    \/ CloseAddAlert
    \/ OpenAddScreen

SpecAddFood == InitAnyAddScreen /\ [][NextAddFood]_vars

\* The nutrition search under every configuration, in both client modules.
InitAnyConfiguration ==
    /\ InitSearch
    /\ InitStorage
    /\ InitNutrition(Envs, Services)
    /\ InitScanner
    /\ InitCalculator({CalcInput("calculateCalories", 200, 100, 0, <<>>)})
    /\ InitHome
    /\ InitLater

NextNutrition ==
    \/ CallSearchFoods
    \/ FetchResolves
    \/ FetchRejects

SpecNutrition == InitAnyConfiguration /\ [][NextNutrition]_vars

\* The barcode scanner screen.
NextScanner ==
    \/ ScanBarcode
    \/ LookupResponds
    \/ PressTryAgain
    \/ PressAddManually
    \/ PressScanAgain

SpecScanner == Init /\ [][NextScanner]_vars

\* The FoodCalculator functions, applied to every input.
InitAnyCalculation ==
    /\ InitSearch
    /\ InitStorage
    /\ InitNutrition({ConfiguredEnv}, {"FoodDatabase"})
    /\ InitScanner
    /\ InitCalculator(CalcInputs(MaxMeasures))
    /\ InitHome
    /\ InitLater

NextCalculator ==
    \/ ApplyCalculateCalories
    \/ ApplyGetDefaultMeasurement
    \/ ApplyGetWeightPresets

SpecCalculator == InitAnyCalculation /\ [][NextCalculator]_vars

\* The home screen, with meals logged and the goal changed in between.
NextHome ==
    \/ Quiet /\ CallLogMeal
    \/ Quiet /\ CallSaveSettings
    \/ ReadStep
    \/ WriteStep
    \/ FocusHome
    \/ HomeLogRead
    \/ HomeSettingsRead
    \/ HomeLoaded

SpecHome == Init /\ [][NextHome]_vars

\* The entry form, fed by searches for one query. The handlers of the form
\* neither read nor write what the search input keeps, so the queries are
\* typed first and their responses arrive while the form is filled in.
FormUntouched == form = InitialForm /\ selection = NoSelection

NextForm ==
    \/ FormUntouched /\ TypeQuery
    \/ FormUntouched /\ Tick
    \/ FormUntouched /\ FireTimer
    \/ ResolveSearch
    \/ TapResult
    \/ ChangeWeight
    \/ PressQuickWeight
    \/ ChangeCalories
    \/ ChangeFoodName
    \/ HandleAddFood

SpecForm == Init /\ [][NextForm]_vars

\* The response parser, applied to every response in every locale.
InitAnyResponse ==
    /\ InitSearch
    /\ InitStorage
    /\ InitNutrition({ConfiguredEnv}, {"FoodDatabase"})
    /\ InitScanner
    /\ InitCalculator({CalcInput("calculateCalories", 200, 100, 0, <<>>)})
    /\ InitHome
    /\ InitForm
    /\ InitParse({ParseInput(items, locale) : items \in ParsedLists(MaxParsed),
                                              locale \in Locales})
    /\ InitSettingsScreen
    /\ InitAddScreen({"OwnForm"})

NextParse == ReturnResults

SpecParse == InitAnyResponse /\ [][NextParse]_vars

\* The settings screen, opened again after every save.
NextSettings ==
    \/ SettingsLoaded
    \/ TypeGoal
    \/ PressGoalPreset
    \/ SaveSettings
    \/ ContinueSave
    \/ WriteStep
    \/ SaveReturns
    \/ ResetToDefault
    \/ CloseAlert

SpecSettings == Init /\ [][NextSettings]_vars

(***************************************************************************)
(* Claims about the food search input.                                     *)
(***************************************************************************)

\* C1: once the response of a later-issued search is shown in searchResults,
\* the response of an earlier-issued search never replaces it: no step puts
\* the response of a search issued earlier than the one shown in place of
\* the results shown.
NoStaleOverwrite ==
    [][(resultsFrom # 0 /\ resultsFrom' # 0 /\ resultsFrom' < resultsFrom) =>
           searchResults' = searchResults]_vars

InputStep ==
    \/ sinceInput' < sinceInput
    \/ lastTyped' # lastTyped
    \/ nextTimerId' # nextTimerId

\* C3: at most one debounce timer is pending at any time; new input cancels
\* the timer that was pending; after unmount no timer is pending and no
\* search is started.
TimerCancelled ==
    /\ [](Cardinality(timers) <= 1 /\ (~mounted => timers = {}))
    /\ [][InputStep => timers' \cap timers = {}]_vars
    /\ [][~mounted => inflight' \subseteq inflight]_vars

\* Two timers were scheduled and neither started a search: the first was
\* cancelled by the second input, the second by the unmount.
BothTimersCancelled ==
    /\ ~mounted
    /\ timers = {}
    /\ nextTimerId = 3
    /\ nextSeq = 1
    /\ ~TooShort(lastTyped)
    /\ sinceInput = DebounceMs

\* C25: whenever the trimmed text of the search box has fewer than 2
\* characters, also after a result was selected, searchResults is empty,
\* whatever timers are pending and whatever searches are in flight.
NoResultsUnderShortText ==
    mounted /\ Len(Trim(searchQuery)) < 2 => searchResults = <<>>

(***************************************************************************)
(* Claims about the persistence gateway.                                   *)
(***************************************************************************)

\* The call in slot s settles in this step.
Settles(s) == calls[s].op # "idle" /\ calls'[s].op = "idle"

Ids(list) == {list[k].id : k \in DOMAIN list}

\* C4: when two addFoodLogEntry calls both read the log before either writes,
\* the stored log right after the second of them settles never holds both
\* new entries, and holds exactly one of them when both calls resolved.
LostUpdate ==
    [][\A s \in Slots :
          (Settles(s) /\ calls[s].op = "addFoodLogEntry") =>
              \A d \in doneAdds :
                  d.id \in calls[s].raced =>
                      LET mine == calls[s].arg[1].id
                          stored == Ids(StoredFoodLog')
                      IN  /\ ~(mine \in stored /\ d.id \in stored)
                          /\ (d.ok /\ last'.outcome = "resolved") =>
                                 (mine \in stored) # (d.id \in stored)]_vars

\* Two appends that raced have both resolved; one of the two entries is stored.
LostUpdateHappened ==
    \E d, e \in doneAdds :
        /\ d.id \in e.raced
        /\ d.ok /\ e.ok
        /\ calls = [s \in Slots |-> Idle]
        /\ last.op = "addFoodLogEntry" /\ last.arg[1].id = e.id
        /\ e.id \in Ids(StoredFoodLog)
        /\ d.id \notin Ids(StoredFoodLog)

\* C5: when setItem fails, the save*, add* and delete* call rejects and the
\* store holds what it held before; a call changes the store in no step
\* other than a setItem that succeeds.
WriteFailureRejects ==
    /\ [][\A s \in Slots :
            (Settles(s) /\ calls[s].pc = "write" /\ ~last'.writeOk) =>
                /\ calls[s].op \in SaveOps \cup UpdateOps
                /\ last'.outcome = "rejected"
                /\ store' = store]_vars
    /\ [][store' # store =>
            \E s \in Slots : Settles(s) /\ calls[s].pc = "write" /\ last'.writeOk]_vars

\* An addRecipe whose write failed was rejected, with recipes in the store.
WriteFailureSeen ==
    /\ last.op = "addRecipe"
    /\ ~last.writeOk
    /\ last.outcome = "rejected"
    /\ Len(StoredRecipes) > 0
    /\ last.arg[1].id \notin Ids(StoredRecipes)

\* The documented default of each read operation.
DefaultOf(op) == IF op = "getSettings" THEN [dailyGoal |-> DefaultDailyGoal] ELSE <<>>

\* C6: getFoodLog, getRecipes, getFoodLogForDate and getSettings always
\* resolve; with nothing stored, or with a failed store read, they resolve to
\* the default: the empty list, or {dailyGoal: 2000} for the settings.
ReadsNeverFail ==
    [][\A s \in Slots :
          (Settles(s) /\ calls[s].op \in ReadOps) =>
              /\ last'.outcome = "resolved"
              /\ (~last'.readOk \/ Len(store[KeyOf(calls[s].op)]) = 0) =>
                     last'.value[1] = DefaultOf(calls[s].op)]_vars

\* A getFoodLog whose store read failed resolved to the empty list while
\* the stored log is not empty.
FailedReadDefaulted ==
    /\ last.op = "getFoodLog"
    /\ ~last.readOk
    /\ last.outcome = "resolved"
    /\ last.value[1] = <<>>
    /\ Len(StoredFoodLog) > 0

\* C7: addRecipe(r) replaces the stored recipe with id r.id at its position,
\* or appends r when no stored recipe has that id; every other stored recipe
\* is unchanged and keeps its place.
AddRecipeIsUpsert ==
    [][\A s \in Slots :
          (Settles(s) /\ calls[s].op = "addRecipe" /\ last'.outcome = "resolved") =>
              LET r == calls[s].arg[1]
                  before == StoredRecipes
                  after == StoredRecipes'
              IN  IF r.id \in Ids(before)
                  THEN /\ Len(after) = Len(before)
                       /\ \A k \in DOMAIN before :
                              after[k] = IF before[k].id = r.id THEN r ELSE before[k]
                  ELSE after = Append(before, r)]_vars

\* C8: a second addRecipe(r) right after a resolved addRecipe(r) leaves the
\* stored recipes as the first call left them, with exactly one recipe of id r.id.
UpsertIdempotent ==
    [][\A s \in Slots :
          (Settles(s) /\ calls[s].op = "addRecipe"
             /\ calls[s].after.op = "addRecipe" /\ calls[s].after.sameArg) =>
              /\ StoredRecipes' = StoredRecipes
              /\ Cardinality({k \in DOMAIN StoredRecipes' :
                                 StoredRecipes'[k].id = calls[s].arg[1].id}) = 1]_vars

\* C9: after a resolved deleteRecipe(id) no stored recipe has that id and the
\* recipes with another id are all stored, unchanged, in the same order;
\* deleting an id that is not stored leaves the recipes as they were.
DeleteRemovesOnlyId ==
    [][\A s \in Slots :
          (Settles(s) /\ calls[s].op = "deleteRecipe" /\ last'.outcome = "resolved") =>
              LET id == calls[s].arg[1]
                  before == StoredRecipes
                  after == StoredRecipes'
                  kept == {k \in DOMAIN before : before[k].id # id}
              IN  /\ id \notin Ids(after)
                  /\ Len(after) = Cardinality(kept)
                  /\ \A k \in kept :
                         after[Cardinality({j \in kept : j <= k})] = before[k]
                  /\ (id \notin Ids(before)) => after = before]_vars

\* The recipes the call that completed last stored.
SavedByLast ==
    IF last.op = "addRecipe" THEN {last.arg[1]}
    ELSE {last.arg[1][k] : k \in DOMAIN last.arg[1]}

Returns(list, r) ==
    \E k \in DOMAIN list :
        /\ list[k].id = r.id
        /\ list[k].name = r.name
        /\ list[k].ingredients = r.ingredients

\* C10: a getRecipes made right after a resolved addRecipe(r), or a resolved
\* saveRecipes of a list holding r, returns a recipe with the id, the name
\* and the ingredient list, in order, of r.
RoundTrip ==
    [][\A s \in Slots :
          (Settles(s) /\ calls[s].op = "getRecipes" /\ calls[s].after.op # "none") =>
              /\ last'.outcome = "resolved"
              /\ \A r \in SavedByLast : Returns(last'.value[1], r)]_vars

\* C10, amended: the same for a getRecipes whose store read succeeds; a
\* getRecipes whose store read fails returns the empty list.
RoundTripWhenRead ==
    [][\A s \in Slots :
          (Settles(s) /\ calls[s].op = "getRecipes" /\ calls[s].after.op # "none") =>
              /\ last'.outcome = "resolved"
              /\ IF last'.readOk
                 THEN \A r \in SavedByLast : Returns(last'.value[1], r)
                 ELSE last'.value[1] = <<>>]_vars

\* A getRecipes right after an addRecipe of a stew returned the stew, with
\* other recipes stored around it.
RoundTripSeen ==
    /\ last.op = "getRecipes"
    /\ last.readOk
    /\ last.after.op = "addRecipe"
    /\ Len(last.value[1]) > 1
    /\ \E k \in DOMAIN last.value[1] : last.value[1][k].name = "stew"

\* The collections a step changes, and the calls that take the step.
Touched == {k \in StoreKeys : store'[k] # store[k]}

Stepping == {s \in Slots : Busy(s) /\ calls'[s] # calls[s]}

FoodLogOps == {"getFoodLog", "getFoodLogForDate", "saveFoodLog", "addFoodLogEntry"}
RecipeOps == {"getRecipes", "saveRecipes", "addRecipe", "deleteRecipe"}
SettingsOps == {"getSettings", "saveSettings"}

\* C30: every step of a StorageService operation changes at most its own
\* collection: a food-log operation only the food log, a recipe operation only
\* the recipes, a settings operation only the settings, a get* operation
\* nothing; and nothing is changed by a step that is not a step of a call.
OneCollectionTouched ==
    [][/\ Touched # {} => Stepping # {}
       /\ \A s \in Stepping :
              /\ calls[s].op \in FoodLogOps => Touched \subseteq {KEYS.FOOD_LOG}
              /\ calls[s].op \in RecipeOps => Touched \subseteq {KEYS.RECIPES}
              /\ calls[s].op \in SettingsOps => Touched \subseteq {KEYS.SETTINGS}
              /\ calls[s].op \in ReadOps => Touched = {}]_vars

\* C30 witness: all three collections are stored, and the last call,
\* a deleteRecipe, emptied the recipes and left the other two as they were.
RecipesEmptiedBesideOthers ==
    /\ last.op = "deleteRecipe"
    /\ last.outcome = "resolved"
    /\ store[KEYS.FOOD_LOG] # <<>> /\ StoredFoodLog # <<>>
    /\ store[KEYS.SETTINGS] # <<>>
    /\ store[KEYS.RECIPES] # <<>> /\ StoredRecipes = <<>>

(***************************************************************************)
(* Claims about the nutrition search client.                               *)
(***************************************************************************)
\* C11: when the application id or the application key is not configured, a
\* call of EdamamService.searchFoods fails with the configuration error and
\* issues no HTTP request.
NoRequestWithoutCredentials ==
    (nutri.entered /\ (~env.appId \/ ~env.appKey)) =>
        /\ nutri.pc = "done"
        /\ nutri.outcome = "rejected"
        /\ nutri.error[Len(nutri.error)] = CredentialsError
        /\ nutri.requests = <<>>

\* The Recipe Search client was called with the key missing, and has failed.
SearchFailedWithoutKey ==
    /\ nutri.entered
    /\ env.appId /\ ~env.appKey
    /\ service = "RecipeSearch"
    /\ nutri.outcome = "rejected"

OnlySpaces(query) == \A i \in DOMAIN query : query[i] = " "

\* C12: a search with an empty or whitespace-only query ends with an empty
\* result list and without an HTTP request.
BlankQueryShortCircuits ==
    (nutri.pc # "idle" /\ OnlySpaces(nutri.query)) =>
        /\ nutri.pc = "done"
        /\ nutri.outcome = "resolved"
        /\ nutri.results = <<>>
        /\ nutri.requests = <<>>

\* A search for a single space has ended, under a complete configuration.
BlankQuerySearched ==
    /\ nutri.pc = "done"
    /\ nutri.query = <<" ">>
    /\ env = ConfiguredEnv

StatusDecidesFound ==
    (screen.kind # "none" /\ screen.response[1].fetch = "ok") =>
        LET data == screen.response[1].data[1]
        IN  IF data.status = 1 /\ data.product # <<>>
            THEN screen.kind \in {"found", "foundNoCalories"}
            ELSE screen.kind = "notFound"

\* A body with status 2 and a product was answered by Product Not Found.
OtherStatusNotFound ==
    /\ screen.kind = "notFound"
    /\ screen.response[1].data[1].status = 2
    /\ screen.response[1].data[1].product # <<>>

\* kJ / 4.184 rounded: the integer r with r - 1/2 <= kJ * 125 / 523 < r + 1/2.
RoundedKcal(kj) ==
    CHOOSE r \in 0..kj : 1046 * r - 523 <= 250 * kj /\ 250 * kj < 1046 * r + 523

\* The calorie value of a product as C15 states it.
StatedCalories(product) ==
    IF product.nutriments = <<>> THEN 0
    ELSE LET n == product.nutriments[1]
         IN  IF n.kcal # <<>> /\ n.kcal[1] # 0 THEN n.kcal[1]
             ELSE IF n.kj # <<>> THEN RoundedKcal(n.kj[1])
             ELSE 0

\* C15: for a found product the calorie value is the kcal field when present
\* and non-zero, otherwise the kJ field divided by 4.184 and rounded; when
\* neither is present or the result is 0 the screen reports the product as
\* found without calorie data and prefills the name only.
CaloriesFromEnergyFields ==
    (screen.kind # "none" /\ screen.response[1].fetch = "ok"
        /\ screen.response[1].data[1].status = 1
        /\ screen.response[1].data[1].product # <<>>) =>
        LET product == screen.response[1].data[1].product[1]
            value == StatedCalories(product)
        IN  IF value = 0
            THEN /\ screen.kind = "foundNoCalories"
                 /\ screen.prefill[1].calories = <<>>
            ELSE /\ screen.kind = "found"
                 /\ screen.prefill[1].calories = <<value>>

\* C28: at most one product lookup is in flight at any time; a scan event that
\* arrives while scanned or isProcessing is set starts no lookup; and every
\* step in which a lookup ends, with whichever of the four outcomes, leaves
\* isProcessing false.
OneLookupInFlight ==
    /\ [](Cardinality(lookups) <= 1)
    /\ [][/\ (scanned \/ isProcessing) => lookups' \subseteq lookups
          /\ lookups' # lookups /\ lookups' \subseteq lookups =>
                 /\ screen'.kind \in {"found", "foundNoCalories", "notFound", "error"}
                 /\ isProcessing' = FALSE]_vars

\* C28 witness: a lookup is in flight after an earlier lookup has ended with
\* 'not found' and the scanner was released again.
SecondLookupInFlight ==
    /\ screen.kind = "notFound"
    /\ lookups # {}
    /\ screen.barcode \notin lookups
    /\ scanned /\ isProcessing

(***************************************************************************)
(* Claims about the calorie calculator.                                    *)
(***************************************************************************)
\* C16: calculateCalories(p, w) is p*w/100 rounded to the nearest integer,
\* halves up: the result r has r - 1/2 <= p*w/100 < r + 1/2; and
\* calculateCalories(200, 100) = 200, calculateCalories(89, 150) = 134.
CaloriesRounded ==
    (calcIn.fn = "calculateCalories" /\ calcOut.pc = "return") =>
        LET r == calcOut.value[1]
            product == calcIn.caloriesPer100g * calcIn.weightInGrams
        IN  /\ 100 * r - 50 <= product
            /\ product < 100 * r + 50
            /\ (calcIn.caloriesPer100g = 200 /\ calcIn.weightInGrams = 100) => r = 200
            /\ (calcIn.caloriesPer100g = 89 /\ calcIn.weightInGrams = 150) => r = 134

\* calculateCalories(89, 150) was computed: 133.5 before rounding.
HalfRoundedUp ==
    /\ calcIn.fn = "calculateCalories"
    /\ calcIn.caloriesPer100g = 89 /\ calcIn.weightInGrams = 150
    /\ calcOut.pc = "return"

Weights(presets) == [i \in DOMAIN presets |-> presets[i].weight]

\* C17: getWeightPresets returns exactly 4 presets, and no returned preset
\* has a weight within 10 g of the weight of another returned preset.
PresetsApart ==
    (calcIn.fn = "getWeightPresets" /\ calcOut.pc # "none") =>
        /\ calcOut.pc = "return"
        /\ Len(calcOut.value[1]) = 4
        /\ \A i, j \in DOMAIN calcOut.value[1] :
               i # j => Abs(calcOut.value[1][i].weight - calcOut.value[1][j].weight) >= 10

\* C17 as amended: getWeightPresets returns exactly 4 presets, and no gram
\* preset added by the backfill loop has a weight within 10 g of the weight
\* of another returned preset.
BackfilledPresetsApart ==
    (calcIn.fn = "getWeightPresets" /\ calcOut.pc # "none") =>
        /\ calcOut.pc = "return"
        /\ Len(calcOut.value[1]) = 4
        /\ \A i, j \in DOMAIN calcOut.value[1] :
               (i # j /\ i > Len(calcOut.valid)) =>
                   Abs(calcOut.value[1][i].weight - calcOut.value[1][j].weight) >= 10

\* Three measures were kept, two of them 5 g apart, and the backfill passed
\* over 50 g and 100 g to add 150 g.
CloseMeasuresKept ==
    /\ calcIn.fn = "getWeightPresets"
    /\ calcOut.pc = "return"
    /\ Weights(calcOut.value[1]) = <<45, 100, 105, 150>>

\* The measures of the input with a weight in (0, 500], as label and weight.
Candidates ==
    LET ms == IF calcIn.measures = <<>> THEN <<>> ELSE calcIn.measures[1]
    IN  {[label |-> m.label, weight |-> m.weight[1]] :
            m \in {x \in Range(ms) : x.weight # <<>> /\ x.weight[1] > 0 /\ x.weight[1] <= 500}}

\* The measures taken before the backfill are the first 4 candidates of the
\* order that lists one group (the common units, or the others) first and
\* each group by ascending weight.
TakenInOrder(commonFirst) ==
    LET kept == calcOut.valid
        InFirstGroup(m) == IsCommonMeasure(m.label) = commonFirst
        Precedes(a, b) == \/ InFirstGroup(a) /\ ~InFirstGroup(b)
                          \/ InFirstGroup(a) = InFirstGroup(b) /\ a.weight < b.weight
    IN  /\ Range(kept) \subseteq Candidates
        /\ Len(kept) = (IF Cardinality(Candidates) < 4 THEN Cardinality(Candidates) ELSE 4)
        /\ \A i, j \in DOMAIN kept : i < j => Precedes(kept[i], kept[j])
        /\ \A m \in Candidates \ Range(kept) : \A k \in Range(kept) : Precedes(k, m)

HasMeasures == calcIn.measures # <<>> /\ calcIn.measures[1] # <<>>

\* C18: when the search result has measures, getWeightPresets keeps the
\* measures with weight in (0, 500], orders them with the measures that are
\* not common units before the common-unit measures, each group ascending by
\* weight, and takes the first 4 of that order before any gram backfill.
NonCommonMeasuresFirst ==
    (calcIn.fn = "getWeightPresets" /\ calcOut.pc # "none" /\ HasMeasures) =>
        TakenInOrder(FALSE)

\* C18 as amended: the same, with the common-unit measures before the
\* measures that are not common units.
CommonMeasuresFirst ==
    (calcIn.fn = "getWeightPresets" /\ calcOut.pc # "none" /\ HasMeasures) =>
        TakenInOrder(TRUE)

\* Five measures qualified: the three common units and the lighter of the
\* two others were taken, in that order.
FifthMeasureDropped ==
    /\ calcIn.fn = "getWeightPresets"
    /\ calcOut.pc = "return"
    /\ Cardinality(Candidates) = 5
    /\ Weights(calcOut.valid) = <<45, 100, 105, 60>>

\* C19: getDefaultMeasurement returns the gram default when the result has
\* no measures; otherwise a measure within 20 g of the target if one exists;
\* otherwise a measure whose label contains cup, piece or serving if one
\* exists; otherwise the gram default.  (A measure is returned with its
\* weight, so the measures that qualify are those that have one.)
DefaultMeasurementChoice ==
    (calcIn.fn = "getDefaultMeasurement" /\ calcOut.pc = "return") =>
        LET r == calcOut.value[1]
            target == calcIn.targetWeightGrams
            gramDefault == [label |-> GramLabel(target), weight |-> target]
            ms == IF calcIn.measures = <<>> THEN <<>> ELSE calcIn.measures[1]
            weighted == {[label |-> m.label, weight |-> m.weight[1]] :
                            m \in {x \in Range(ms) : x.weight # <<>>}}
            close == {m \in weighted : Abs(m.weight - target) <= 20}
            named == {m \in weighted :
                         \/ Includes(ToLowerCase(m.label), <<"c", "u", "p">>)
                         \/ Includes(ToLowerCase(m.label), <<"p", "i", "e", "c", "e">>)
                         \/ Includes(ToLowerCase(m.label),
                                     <<"s", "e", "r", "v", "i", "n", "g">>)}
        IN  IF ms = <<>> THEN r = gramDefault
            ELSE IF close # {} THEN r \in close
            ELSE IF named # {} THEN r \in named
            ELSE r = gramDefault

\* C27: the backfill loop of getWeightPresets terminates for every input:
\* while fewer than 4 presets are chosen, one of the gram amounts 50, 100,
\* 150, 200, 250 is at least 10 g away from every weight chosen so far, so
\* every pass adds a preset and the function returns 4 presets.
BackfillTerminates ==
    calcIn.fn = "getWeightPresets" /\ calcOut.pc # "none" =>
        /\ calcOut.pc = "return"
        /\ Len(calcOut.value[1]) = 4
        /\ \A n \in Len(calcOut.valid)..3 :
               \E k \in DOMAIN GramWeights :
                   \A i \in 1..n : Abs(calcOut.value[1][i].weight - GramWeights[k]) >= 10

\* C27 witness: three measures were kept, of 45 g, 105 g and 195 g, which are
\* within 10 g of 50, 100 and 200, and the loop added 150 g.
ThreeGramAmountsTaken ==
    /\ calcIn.fn = "getWeightPresets"
    /\ calcOut.pc = "return"
    /\ Len(calcOut.valid) = 3
    /\ {calcOut.valid[i].weight : i \in 1..3} = {45, 105, 195}
    /\ calcOut.value[1][4].weight = 150

(***************************************************************************)
(* Claims about the home screen.                                           *)
(***************************************************************************)
\* The sum of the calories of the entries of the list at the given places.
RECURSIVE SumAt(_, _)
SumAt(list, places) ==
    IF places = {} THEN 0
    ELSE LET k == CHOOSE i \in places : TRUE
         IN  list[k].calories + SumAt(list, places \ {k})

\* C20: the consumed total shown is the sum of the calories of the logged
\* entries whose date is today (of the log as getFoodLogForDate read it: the
\* stored log, or no entry when the store read failed), and the remaining
\* value shown is dailyGoal minus that total, not clamped: negative whenever
\* the total exceeds the goal, -500 for goal 2000 and total 2500.
HomeTotals ==
    summary # <<>> =>
        LET s == summary[1]
            log == IF s.read.ok THEN s.read.stored ELSE <<>>
        IN  /\ s.consumed = SumAt(log, {i \in DOMAIN log : log[i].date = s.today})
            /\ s.remaining + s.consumed = s.goal
            /\ s.consumed > s.goal => s.remaining < 0
            /\ (s.goal = 2000 /\ s.consumed = 2500) => s.remaining = -500

\* Goal 2000 and 2500 consumed today, with an entry of another day stored.
OverGoalShown ==
    /\ summary # <<>>
    /\ summary[1].goal = 2000
    /\ summary[1].consumed = 2500
    /\ \E i \in DOMAIN summary[1].read.stored :
           summary[1].read.stored[i].date # summary[1].today

(***************************************************************************)
(* Claims about the entry form.                                            *)
(***************************************************************************)

\* C21: every FoodSelectionResult passed to onFoodSelected while a search
\* result is selected (caloriesPer100g not null) has
\* calories = round(caloriesPer100g * weight / 100) for the weight it reports.
SelectionCaloriesScaled ==
    selection.passed # <<>> /\ selection.per100g # <<>> =>
        LET result == selection.passed[1]
            exact == Fraction(selection.per100g[1] * result.weight.num,
                              100 * result.weight.den)
        IN  result.calories = (2 * exact.num + exact.den) \div (2 * exact.den)

\* C21 witness: 2.5 g of a food of 155 kcal per 100 g were passed on as 4 kcal.
ScaledSelectionPassed ==
    /\ selection.passed # <<>>
    /\ selection.per100g = <<155>>
    /\ selection.passed[1].weight = Fraction(25, 10)
    /\ selection.passed[1].calories = 4

(***************************************************************************)
(* Claims about the food database response.                                *)
(***************************************************************************)
\* The labels of a list of foods or results.
Labels(list) == [i \in DOMAIN list |-> list[i].label]

\* The place of the food with the given id in data.parsed.
PlaceOf(id) == CHOOSE i \in DOMAIN parsed.items : parsed.items[i].foodId = id

\* C22: the list a nutrition search returns is sorted by label in
\* case-insensitive ascending order, results whose labels are equal ignoring
\* case keep their original relative order, and the labels
\* [banana, Apple, apple pie] come out as [Apple, apple pie, banana].
SortedIgnoringCase ==
    returned # <<>> =>
        LET out == returned[1]
        IN  /\ \A i, j \in DOMAIN out :
                  i < j =>
                      LET order == ComparePrimary(ToLowerCase(out[i].label),
                                                  ToLowerCase(out[j].label))
                      IN  \/ order < 0
                          \/ order = 0 /\ PlaceOf(out[i].id) < PlaceOf(out[j].id)
            /\ Labels(parsed.items) = << <<"b", "a", "n", "a", "n", "a">>,
                                        <<"A", "p", "p", "l", "e">>,
                                        <<"a", "p", "p", "l", "e", " ", "p", "i", "e">> >>
                  => Labels(out) = << <<"A", "p", "p", "l", "e">>,
                                      <<"a", "p", "p", "l", "e", " ", "p", "i", "e">>,
                                      <<"b", "a", "n", "a", "n", "a">> >>

(***************************************************************************)
(* Claims about the settings screen.                                       *)
(***************************************************************************)
\* The Save Settings press of this step was turned down.
SaveTurnedDown ==
    settingsScreen.alert = "none" /\ settingsScreen'.alert = "Validation Error"

\* C23: in every state reachable through the settings screen the stored
\* settings, when present, have a dailyGoal that is an integer above 0; a save
\* of a text that does not parse to an integer above 0 is turned down, and
\* that step neither writes to the store nor starts a StorageService call.
StoredGoalPositive ==
    /\ [](store[KEYS.SETTINGS] # <<>> =>
              StoredSettings.dailyGoal \in Nat /\ StoredSettings.dailyGoal > 0)
    /\ [][/\ (~settingsScreen.loading /\ settingsScreen.alert = "none"
               /\ ~settingsScreen.saving /\ settingsScreen'.saving)
                  => LET goalValue == ParseInt(settingsScreen.dailyGoal)
                     IN  goalValue # NaN /\ goalValue[1] > 0
           /\ SaveTurnedDown => UNCHANGED <<store, calls>>]_vars

\* C23 witness: with the unusual goal 500 stored after the warning, a later
\* save of a text that is no positive integer was turned down.
BadGoalTurnedDown ==
    /\ store[KEYS.SETTINGS] # <<>>
    /\ StoredSettings.dailyGoal = 500
    /\ settingsScreen.alert = "Validation Error"
    /\ LET goalValue == ParseInt(settingsScreen.dailyGoal)
       IN  goalValue = NaN \/ goalValue[1] <= 0

(***************************************************************************)
(* Claims about the add food screen.                                       *)
(***************************************************************************)
AddsInFlight == {s \in Slots : calls[s].op = "addFoodLogEntry"}

\* C29: on the Add Food screen at most one addFoodLogEntry call is in flight
\* at any time, a call is in flight only while isAdding is true, and no step
\* taken while isAdding is true starts a call.
OneAddInFlight ==
    /\ [](/\ Cardinality(AddsInFlight) <= 1
          /\ AddsInFlight # {} => addScreen.isAdding)
    /\ [][addScreen.isAdding => nOps' = nOps]_vars

\* C29 witness: a second addFoodLogEntry is in flight, started after the
\* first one had failed and its alert was closed.
SecondAddInFlight ==
    /\ nOps = 2
    /\ Cardinality(AddsInFlight) = 1
    /\ addScreen.isAdding
    /\ last.op = "addFoodLogEntry"
    /\ last.outcome = "rejected"

(***************************************************************************)
(* Claims about the food log, the recipes and the settings as stored.      *)
(***************************************************************************)
\* list is the beginning of longer.
IsPrefix(list, longer) ==
    Len(list) <= Len(longer) /\ SubSeq(longer, 1, Len(list)) = list

\* C24: the food log only grows under addFoodLogEntry: when a call that
\* overlapped no other call settles, also after a failed read or a failed
\* write, every entry stored before is still stored, unchanged and in place,
\* and a call that resolved has added exactly its entry at the end.
AppendOnlyGrows ==
    [][\A s \in Slots :
          (Settles(s) /\ calls[s].op = "addFoodLogEntry"
             /\ \A t \in Slots \ {s} : ~Busy(t)) =>
              /\ IsPrefix(StoredFoodLog, StoredFoodLog')
              /\ last'.outcome = "resolved" =>
                     StoredFoodLog' = Append(StoredFoodLog, calls[s].arg[1])]_vars

\* C26: starting from recipes without duplicate ids, after any sequence and
\* any interleaving of addRecipe and deleteRecipe calls no two stored recipes
\* have the same id.
NoDuplicateRecipeIds ==
    \A i, j \in DOMAIN StoredRecipes :
        i # j => StoredRecipes[i].id # StoredRecipes[j].id

\* C26 witness: an addRecipe read the recipes before another addRecipe of the
\* same id wrote them, and is about to write a list that holds the id as well.
UpsertsRaced ==
    \E s \in Slots :
        /\ calls[s].op = "addRecipe" /\ calls[s].pc = "write"
        /\ last.op = "addRecipe" /\ last.outcome = "resolved"
        /\ last.arg[1].id = calls[s].arg[1].id
        /\ last.arg[1] # calls[s].arg[1]
        /\ Len(StoredRecipes) = 2
        /\ Len(calls[s].local[1]) = 2
        /\ calls[s].local[1] # StoredRecipes
====
